---- MODULE Spec2Model ----
(***************************************************************************)
(* A model of the Fields module of meteor-astronomy                        *)
(* (src/lib/modules/fields/module.js): the per-document state (_values,    *)
(* _modified) with set / get / getModified / save / remove / reload, and   *)
(* the recursive validation walk documentValidate.                         *)
(*                                                                         *)
(* JavaScript values are tokens (strings): "undefined", "null", the        *)
(* numbers "n0" "n1", the strings "s" (the empty string), "s0" ("0"),      *)
(* "s1" ("1"), "sa", "sb", ..., and the ids "id0", "id1", ...              *)
(***************************************************************************)
EXTENDS Integers, Sequences, FiniteSets, TLC

VARIABLES
  cls,        \* the class of the document instance (this.constructor)
  hasColl,    \* whether schema.getCollection() yields a collection
  values,     \* this._values
  modified,   \* this._modified
  store,      \* the documents of the collection, by _id
  nextId,     \* the number of the next id the collection generates
  last,       \* the last operation on the instance: its input, its outcome
              \* and the events it triggered
  vin,        \* the options of the last documentValidate call
  vout,       \* what that call did
  clone       \* the instance a clone() call returned, if any

vars == <<cls, hasColl, values, modified, store, nextId, last, vin, vout, clone>>

(***************************************************************************)
(* Bounds of the model.                                                    *)
(***************************************************************************)
MaxInserts == 2
MaxList == 2

(***************************************************************************)
(* Maps (plain JavaScript objects) are functions on a finite set of keys.  *)
(***************************************************************************)
EmptyMap == [k \in {} |-> "undefined"]

Put(m, k, v) == [x \in (DOMAIN m) \cup {k} |-> IF x = k THEN v ELSE m[x]]

\* _.pick(m, keys)
Pick(m, keys) == [x \in (DOMAIN m) \cap keys |-> m[x]]

\* _.omit(m, key)
Omit(m, key) == [x \in (DOMAIN m) \ {key} |-> m[x]]

\* _.extend(m, n): the keys of n override those of m
Extend(m, n) == [x \in (DOMAIN m) \cup (DOMAIN n) |-> IF x \in DOMAIN n THEN n[x] ELSE m[x]]

\* m[k] in JavaScript: undefined when the key is absent
At(m, k) == IF k \in DOMAIN m THEN m[k] ELSE "undefined"

\* JavaScript truthiness of a token
Truthy(v) == v \notin {"undefined", "null", "false", "n0", "s"}

(***************************************************************************)
(* The classes: Child inherits from Parent.                                *)
(***************************************************************************)
Classes == {"Parent", "Child"}

getParentClass(c) == IF c = "Child" THEN "Parent" ELSE "none"

\* getName() as a string value
NameValue(c) == "s" \o c

\* definition.fields of each class.  Field n is declared by both classes,
\* with different types and defaults; field p by Parent only.
definitionFields(c) ==
  IF c = "Parent"
    THEN [n |-> [type |-> "Number", default |-> "n0"],
          p |-> [type |-> "String", default |-> "sa"]]
    ELSE [n |-> [type |-> "String", default |-> "s1"]]

\* An initSchema that adds _id to the classes without parent only
SchemaFieldsIdAtRoot(c) ==
  Extend(IF getParentClass(c) # "none"
           THEN [_type |-> [type |-> "String", default |-> NameValue(c)]]
           ELSE [_id |-> [type |-> "String", default |-> "null"]],
         definitionFields(c))

\* initSchema: this._fields of class c
SchemaFields(c) ==
  Extend(Extend([_id |-> [type |-> "String", default |-> "null"]],
                IF getParentClass(c) # "none"
                  THEN [_type |-> [type |-> "String", default |-> NameValue(c)]]
                  ELSE EmptyMap),
         definitionFields(c))

\* schema.getField(name): the class's own declaration, or none
hasField(c, name) == name \in DOMAIN SchemaFields(c)

getField(c, name) == SchemaFields(c)[name]

\* The class and its ancestors, nearest first
RECURSIVE Chain(_)
Chain(c) == IF c = "none" THEN <<>> ELSE <<c>> \o Chain(getParentClass(c))

\* schema.getFieldsNames(true): the names declared by the class or an ancestor
getFieldsNames(c) == UNION {DOMAIN SchemaFields(Chain(c)[i]) : i \in 1..Len(Chain(c))}

\* The object a field definition is, as a value distinct from every other
FieldObject(c, name) == "fielddef:" \o c \o "." \o name

(***************************************************************************)
(* Astronomy.Utils.convertFieldValueByType(value, type)                    *)
(***************************************************************************)
IsNil(v) == v \in {"undefined", "null"}

IsNumber(v) == v \in {"n0", "n1"}

IsBoolean(v) == v \in {"true", "false"}

convertFieldValueByType(v, type) ==
  IF IsNil(v) THEN v
  ELSE IF type = "String"
    THEN (IF v = "n0" THEN "s0" ELSE IF v = "n1" THEN "s1"
          ELSE IF v = "true" THEN "strue" ELSE IF v = "false" THEN "sfalse"
          ELSE v)
  ELSE IF type = "Number"
    THEN (IF IsNumber(v) THEN v
          ELSE IF v \in {"s", "s0", "false"} THEN "n0"
          ELSE IF v \in {"s1", "true"} THEN "n1"
          ELSE "CastError")
  ELSE IF type = "Boolean"
    THEN (IF Truthy(v) THEN "true" ELSE "false")
  ELSE v

\* The casts of set: the value goes through the type of every class of the
\* chain that declares the field, from the instance's class upwards
RECURSIVE castThroughChain(_, _, _)
castThroughChain(chain, name, v) ==
  IF chain = <<>> THEN v
  ELSE LET c == Head(chain)
           w == IF hasField(c, name) /\ getField(c, name).type # "none"
                  THEN convertFieldValueByType(v, getField(c, name).type)
                  ELSE v
       IN  IF w = "CastError" THEN w ELSE castThroughChain(Tail(chain), name, w)

(***************************************************************************)
(* get                                                                     *)
(***************************************************************************)
\* The default of the field in the nearest class of the chain declaring it
RECURSIVE defaultInChain(_, _)
defaultInChain(chain, name) ==
  IF chain = <<>> THEN "undefined"
  ELSE IF hasField(Head(chain), name) THEN getField(Head(chain), name).default
  ELSE defaultInChain(Tail(chain), name)

\* get with the stored value looked up before the pending one
getStoredFirst(vals, mods, c, name) ==
  IF name = "_id" /\ ~Truthy(At(vals, "_id")) THEN "undefined"
  ELSE IF name \in DOMAIN vals THEN vals[name]
  ELSE IF name \in DOMAIN mods THEN mods[name]
  ELSE defaultInChain(Chain(c), name)

\* get without the test of the stored _id
getWithoutIdTest(vals, mods, c, name) ==
  IF name \in DOMAIN mods THEN mods[name]
  ELSE IF name \in DOMAIN vals THEN vals[name]
  ELSE defaultInChain(Chain(c), name)

\* get(fieldName) on an instance of class c holding vals and mods
get(vals, mods, c, name) ==
  IF name = "_id" /\ ~Truthy(At(vals, "_id")) THEN "undefined"
  ELSE IF name \in DOMAIN mods THEN mods[name]
  ELSE IF name \in DOMAIN vals THEN vals[name]
  ELSE defaultInChain(Chain(c), name)

\* get([fieldNames])
getMany(vals, mods, c, names) ==
  [x \in {y \in names : ~(y = "_id" /\ ~Truthy(get(vals, mods, c, y)))}
     |-> get(vals, mods, c, x)]

\* get()
getAll(vals, mods, c) == getMany(vals, mods, c, getFieldsNames(c))

\* toJSON()
toJSON(vals, mods, c) == getMany(vals, mods, c, getFieldsNames(c))

(***************************************************************************)
(* set                                                                     *)
(***************************************************************************)
\* set without the comparison to the stored value
setOneAlwaysWrites(vals, mods, c, name, v) ==
  IF name = "_id" /\ Truthy(At(vals, name))
    THEN [modified |-> mods, threw |-> "none"]
  ELSE LET value == castThroughChain(Chain(c), name, v)
       IN  IF value = "CastError"
             THEN [modified |-> mods, threw |-> "CastError"]
           ELSE [modified |-> Put(mods, name, value), threw |-> "none"]

\* set comparing to the stored value whether or not it is truthy
setOneLooseEquality(vals, mods, c, name, v) ==
  IF name = "_id" /\ Truthy(At(vals, name))
    THEN [modified |-> mods, threw |-> "none"]
  ELSE LET value == castThroughChain(Chain(c), name, v)
       IN  IF value = "CastError"
             THEN [modified |-> mods, threw |-> "CastError"]
           ELSE IF name \in DOMAIN vals /\ value = vals[name]
             THEN [modified |-> mods, threw |-> "none"]
           ELSE [modified |-> Put(mods, name, value), threw |-> "none"]

\* set refusing a new _id when one is pending, not when one is stored
setOneGuardsPending(vals, mods, c, name, v) ==
  IF name = "_id" /\ Truthy(At(mods, name))
    THEN [modified |-> mods, threw |-> "none"]
  ELSE LET value == castThroughChain(Chain(c), name, v)
       IN  IF value = "CastError"
             THEN [modified |-> mods, threw |-> "CastError"]
           ELSE IF Truthy(At(vals, name)) /\ value = At(vals, name)
             THEN [modified |-> mods, threw |-> "none"]
           ELSE [modified |-> Put(mods, name, value), threw |-> "none"]

\* set(fieldName, value): the new _modified, or the error thrown
setOne(vals, mods, c, name, v) ==
  IF name = "_id" /\ Truthy(At(vals, name))
    THEN [modified |-> mods, threw |-> "none"]
  ELSE LET value == castThroughChain(Chain(c), name, v)
       IN  IF value = "CastError"
             THEN [modified |-> mods, threw |-> "CastError"]
           ELSE IF Truthy(At(vals, name)) /\ value = At(vals, name)
             THEN [modified |-> mods, threw |-> "none"]
           ELSE [modified |-> Put(mods, name, value), threw |-> "none"]

\* set({name: value, ...}): each pair in the mapping's order; an error
\* thrown by one pair ends the loop
RECURSIVE setMany(_, _, _, _)
setMany(vals, mods, c, pairs) ==
  IF pairs = <<>> THEN [modified |-> mods, threw |-> "none"]
  ELSE LET r == setOne(vals, mods, c, Head(pairs)[1], Head(pairs)[2])
       IN  IF r.threw # "none" THEN r
           ELSE setMany(vals, r.modified, c, Tail(pairs))

(***************************************************************************)
(* getModified                                                             *)
(***************************************************************************)
\* What the loop over the chain stores for a missing key: the value
\* schema.getField returns in the nearest class declaring the key
RECURSIVE fieldInChain(_, _)
fieldInChain(chain, name) ==
  IF chain = <<>> THEN "undefined"
  ELSE IF hasField(Head(chain), name) THEN FieldObject(Head(chain), name)
  ELSE fieldInChain(Tail(chain), name)

getModified(vals, mods, c, old) ==
  IF old
    THEN LET modifiedKeys == DOMAIN mods
             oldValues == Pick(vals, modifiedKeys)
             missingKeys == modifiedKeys \ DOMAIN oldValues
             found == {k \in missingKeys : fieldInChain(Chain(c), k) # "undefined"}
         IN  [k \in (DOMAIN oldValues) \cup found |->
                IF k \in DOMAIN oldValues THEN oldValues[k]
                ELSE fieldInChain(Chain(c), k)]
    ELSE mods

(***************************************************************************)
(* The collection (save, remove and reload call it)                        *)
(***************************************************************************)
\* The id Collection.insert generates
IdValue(i) == "id" \o ToString(i)

\* Collection.insert(doc): the stored documents afterwards
collectionInsert(st, id, doc) == Put(st, id, Put(doc, "_id", id))

\* Collection.update({_id: id}, {$set: doc})
collectionUpdate(st, id, doc) ==
  IF id \in DOMAIN st THEN Put(st, id, Extend(st[id], doc)) ELSE st

\* Collection.remove({_id: id})
collectionRemove(st, id) == [x \in (DOMAIN st) \ {id} |-> st[x]]

\* Collection.findOne(id, {transform: null}) || vals
collectionFindOne(st, id, vals) == IF id \in DOMAIN st THEN st[id] ELSE vals

(***************************************************************************)
(* The inputs of the operations                                            *)
(***************************************************************************)
\* A document already in the collection; its n and p are falsy
StoredDoc == [_id |-> "id0", n |-> "n0", p |-> "s"]

\* A document loaded before the stored one was changed by another client
ChangedDoc == [_id |-> "id0", n |-> "n1", p |-> "s"]

\* A document loaded before another client removed it from the collection
GoneDoc == [_id |-> "id9", n |-> "n1"]

\* The attributes a new instance is constructed from (none, or a loaded
\* document)
InitAttrs == {EmptyMap, StoredDoc, ChangedDoc, GoneDoc}

\* The calls set(name, value); zz is declared by no class
SetInputs ==
  { <<"_id", "sa">>, <<"_id", "sb">>,
    <<"n", "n0">>, <<"n", "n1">>, <<"n", "sa">>,
    <<"p", "s">>, <<"p", "sa">>,
    <<"zz", "n1">> }

\* The mappings given to set({...}), as sequences of pairs in key order
SetMappings ==
  { <<<<"_id", "sb">>, <<"n", "n1">>>>,
    <<<<"p", "s">>, <<"n", "sa">>, <<"zz", "n1">>>> }

NoOp == [op |-> "new", name |-> "", arg |-> "", threw |-> "none",
         result |-> "undefined", log |-> <<>>]

Op(op, name, arg, threw, result, log) ==
  [op |-> op, name |-> name, arg |-> arg, threw |-> threw, result |-> result,
   log |-> log]

NoValidation == [called |-> FALSE]

\* No clone() call has returned an instance
NoClone == [made |-> FALSE]

(***************************************************************************)
(* initInstance                                                            *)
(***************************************************************************)
Init ==
  /\ cls \in Classes
  /\ hasColl \in BOOLEAN
  /\ values \in InitAttrs
  /\ modified = EmptyMap
  /\ store = ("id0" :> StoredDoc)
  /\ nextId = 1
  /\ last = NoOp
  /\ vin = NoValidation
  /\ vout = NoValidation
  /\ clone = NoClone

(***************************************************************************)
(* The operations on the instance                                          *)
(***************************************************************************)
Set(name, v) ==
  LET r == setOne(values, modified, cls, name, v)
  IN  /\ modified' = r.modified
      /\ last' = Op("set", name, v, r.threw, "undefined", <<>>)
      /\ UNCHANGED <<cls, hasColl, values, store, nextId, vin, vout, clone>>

SetMapping(pairs) ==
  LET r == setMany(values, modified, cls, pairs)
  IN  /\ modified' = r.modified
      /\ last' = Op("setMany", "", pairs, r.threw, "undefined", <<>>)
      /\ UNCHANGED <<cls, hasColl, values, store, nextId, vin, vout, clone>>

\* An update flag that is set when values has the key _id, whatever it holds
saveUpdateHasKey(vals) == "_id" \in DOMAIN vals

\* save(): what it writes, and where
saveUpdate(vals) == Truthy(At(vals, "_id"))

\* save picking the fields of the class itself, not the inherited ones
saveValuesOwnFields(vals, mods, c) ==
  LET update == saveUpdate(vals)
      all == IF update THEN getModified(vals, mods, c, FALSE) ELSE getAll(vals, mods, c)
      fields == IF ~Truthy(At(all, "_id")) \/ update
                  THEN (DOMAIN SchemaFields(c)) \ {"_id"}
                  ELSE DOMAIN SchemaFields(c)
  IN  Pick(all, fields)

saveValues(vals, mods, c) ==
  LET update == saveUpdate(vals)
      all == IF update THEN getModified(vals, mods, c, FALSE) ELSE getAll(vals, mods, c)
      fields == IF ~Truthy(At(all, "_id")) \/ update
                  THEN getFieldsNames(c) \ {"_id"}
                  ELSE getFieldsNames(c)
  IN  Pick(all, fields)

\* A save that triggers beforeSave before it looks for the collection
SaveTriggersFirst(writeFails) ==
  IF ~hasColl
    THEN /\ last' = Op("save", "", "", "There is no collection to save to",
                       "undefined", <<"beforeSave">>)
         /\ UNCHANGED <<cls, hasColl, values, modified, store, nextId, vin, vout, clone>>
  ELSE
    LET update == saveUpdate(values)
        before == <<"beforeSave", IF update THEN "beforeUpdate" ELSE "beforeInsert">>
        written == saveValues(values, modified, cls)
        write == IF update THEN "update" ELSE "insert"
        id == IF update THEN values["_id"]
              ELSE IF "_id" \in DOMAIN written THEN written["_id"]
              ELSE IdValue(nextId)
        after == <<IF update THEN "afterUpdate" ELSE "afterInsert", "afterSave",
                  "extend", "clear">>
    IN  IF Cardinality(DOMAIN written) = 0
          THEN /\ last' = Op("save", "", "", "none", "false", before)
               /\ UNCHANGED <<cls, hasColl, values, modified, store, nextId, vin, vout, clone>>
        ELSE IF writeFails
          THEN /\ last' = Op("save", "", "", "write error", "undefined",
                             Append(before, write))
               /\ UNCHANGED <<cls, hasColl, values, modified, store, nextId, vin, vout, clone>>
        ELSE /\ update \/ nextId <= MaxInserts
             /\ store' = IF update THEN collectionUpdate(store, id, written)
                                   ELSE collectionInsert(store, id, written)
             /\ nextId' = IF update \/ "_id" \in DOMAIN written THEN nextId ELSE nextId + 1
             /\ values' = Extend(IF update THEN values ELSE Put(values, "_id", id), written)
             /\ modified' = EmptyMap
             /\ last' = Op("save", "", "", "none",
                           IF ~update THEN id ELSE IF id \in DOMAIN store THEN "n1" ELSE "n0",
                           Append(before, write) \o after)
             /\ UNCHANGED <<cls, hasColl, vin, vout, clone>>

\* A save that folds the written values and clears modified before it
\* triggers the after events
SaveFoldsBeforeEvents(writeFails) ==
  IF ~hasColl
    THEN /\ last' = Op("save", "", "", "There is no collection to save to",
                       "undefined", <<>>)
         /\ UNCHANGED <<cls, hasColl, values, modified, store, nextId, vin, vout, clone>>
  ELSE
    LET update == saveUpdate(values)
        before == <<"beforeSave", IF update THEN "beforeUpdate" ELSE "beforeInsert">>
        written == saveValues(values, modified, cls)
        write == IF update THEN "update" ELSE "insert"
        id == IF update THEN values["_id"]
              ELSE IF "_id" \in DOMAIN written THEN written["_id"]
              ELSE IdValue(nextId)
        after == <<"extend", "clear",
                  IF update THEN "afterUpdate" ELSE "afterInsert", "afterSave">>
    IN  IF Cardinality(DOMAIN written) = 0
          THEN /\ last' = Op("save", "", "", "none", "false", before)
               /\ UNCHANGED <<cls, hasColl, values, modified, store, nextId, vin, vout, clone>>
        ELSE IF writeFails
          THEN /\ last' = Op("save", "", "", "write error", "undefined",
                             Append(before, write))
               /\ UNCHANGED <<cls, hasColl, values, modified, store, nextId, vin, vout, clone>>
        ELSE /\ update \/ nextId <= MaxInserts
             /\ store' = IF update THEN collectionUpdate(store, id, written)
                                   ELSE collectionInsert(store, id, written)
             /\ nextId' = IF update \/ "_id" \in DOMAIN written THEN nextId ELSE nextId + 1
             /\ values' = Extend(IF update THEN values ELSE Put(values, "_id", id), written)
             /\ modified' = EmptyMap
             /\ last' = Op("save", "", "", "none",
                           IF ~update THEN id ELSE IF id \in DOMAIN store THEN "n1" ELSE "n0",
                           Append(before, write) \o after)
             /\ UNCHANGED <<cls, hasColl, vin, vout, clone>>

\* save(); writeFails: the collection's insert or update throws.  The log
\* holds the steps in the order executed: the events triggered, the call of
\* the collection, _.extend(this._values, values) and this._modified = {}
Save(writeFails) ==
  IF ~hasColl
    THEN /\ last' = Op("save", "", "", "There is no collection to save to",
                       "undefined", <<>>)
         /\ UNCHANGED <<cls, hasColl, values, modified, store, nextId, vin, vout, clone>>
  ELSE
    LET update == saveUpdate(values)
        before == <<"beforeSave", IF update THEN "beforeUpdate" ELSE "beforeInsert">>
        written == saveValues(values, modified, cls)
        write == IF update THEN "update" ELSE "insert"
        id == IF update THEN values["_id"]
              ELSE IF "_id" \in DOMAIN written THEN written["_id"]
              ELSE IdValue(nextId)
        after == <<IF update THEN "afterUpdate" ELSE "afterInsert", "afterSave",
                  "extend", "clear">>
    IN  IF Cardinality(DOMAIN written) = 0
          THEN /\ last' = Op("save", "", "", "none", "false", before)
               /\ UNCHANGED <<cls, hasColl, values, modified, store, nextId, vin, vout, clone>>
        ELSE IF writeFails
          THEN /\ last' = Op("save", "", "", "write error", "undefined",
                             Append(before, write))
               /\ UNCHANGED <<cls, hasColl, values, modified, store, nextId, vin, vout, clone>>
        ELSE /\ update \/ nextId <= MaxInserts
             /\ store' = IF update THEN collectionUpdate(store, id, written)
                                   ELSE collectionInsert(store, id, written)
             /\ nextId' = IF update \/ "_id" \in DOMAIN written THEN nextId ELSE nextId + 1
             /\ values' = Extend(IF update THEN values ELSE Put(values, "_id", id), written)
             /\ modified' = EmptyMap
             /\ last' = Op("save", "", "", "none",
                           IF ~update THEN id ELSE IF id \in DOMAIN store THEN "n1" ELSE "n0",
                           Append(before, write) \o after)
             /\ UNCHANGED <<cls, hasColl, vin, vout, clone>>

\* A remove that drops the pending modifications as well
RemoveClearsModified(writeFails) ==
  IF ~hasColl
    THEN /\ last' = Op("remove", "", "", "There is no collection to remove from",
                       "undefined", <<>>)
         /\ UNCHANGED <<cls, hasColl, values, modified, store, nextId, vin, vout, clone>>
  ELSE IF ~Truthy(At(values, "_id"))
    THEN /\ last' = Op("remove", "", "", "none", "undefined", <<>>)
         /\ UNCHANGED <<cls, hasColl, values, modified, store, nextId, vin, vout, clone>>
  ELSE IF writeFails
    THEN /\ last' = Op("remove", "", "", "write error", "undefined",
                       <<"beforeRemove", "remove">>)
         /\ UNCHANGED <<cls, hasColl, values, modified, store, nextId, vin, vout, clone>>
  ELSE /\ store' = collectionRemove(store, values["_id"])
       /\ values' = Put(values, "_id", "null")
       /\ last' = Op("remove", "", "", "none",
                     IF values["_id"] \in DOMAIN store THEN "n1" ELSE "n0",
                     <<"beforeRemove", "remove", "afterRemove", "resetId">>)
       /\ modified' = EmptyMap
       /\ UNCHANGED <<cls, hasColl, nextId, vin, vout, clone>>

\* remove()
Remove(writeFails) ==
  IF ~hasColl
    THEN /\ last' = Op("remove", "", "", "There is no collection to remove from",
                       "undefined", <<>>)
         /\ UNCHANGED <<cls, hasColl, values, modified, store, nextId, vin, vout, clone>>
  ELSE IF ~Truthy(At(values, "_id"))
    THEN /\ last' = Op("remove", "", "", "none", "undefined", <<>>)
         /\ UNCHANGED <<cls, hasColl, values, modified, store, nextId, vin, vout, clone>>
  ELSE IF writeFails
    THEN /\ last' = Op("remove", "", "", "write error", "undefined",
                       <<"beforeRemove", "remove">>)
         /\ UNCHANGED <<cls, hasColl, values, modified, store, nextId, vin, vout, clone>>
  ELSE /\ store' = collectionRemove(store, values["_id"])
       /\ values' = Put(values, "_id", "null")
       /\ last' = Op("remove", "", "", "none",
                     IF values["_id"] \in DOMAIN store THEN "n1" ELSE "n0",
                     <<"beforeRemove", "remove", "afterRemove", "resetId">>)
       /\ UNCHANGED <<cls, hasColl, modified, nextId, vin, vout, clone>>

\* A reload that keeps the pending modifications
ReloadKeepsModified ==
  IF ~hasColl
    THEN /\ last' = Op("reload", "", "", "There is no collection to reload document from",
                       "undefined", <<>>)
         /\ UNCHANGED <<cls, hasColl, values, modified, store, nextId, vin, vout, clone>>
  ELSE IF Truthy(At(values, "_id"))
    THEN /\ values' = collectionFindOne(store, values["_id"], values)
         /\ last' = Op("reload", "", "", "none", "undefined", <<"findOne">>)
         /\ UNCHANGED <<cls, hasColl, modified, store, nextId, vin, vout, clone>>
  ELSE /\ last' = Op("reload", "", "", "none", "undefined", <<>>)
       /\ UNCHANGED <<cls, hasColl, values, modified, store, nextId, vin, vout, clone>>

\* reload()
Reload ==
  IF ~hasColl
    THEN /\ last' = Op("reload", "", "", "There is no collection to reload document from",
                       "undefined", <<>>)
         /\ UNCHANGED <<cls, hasColl, values, modified, store, nextId, vin, vout, clone>>
  ELSE IF Truthy(At(values, "_id"))
    THEN /\ values' = collectionFindOne(store, values["_id"], values)
         /\ modified' = EmptyMap
         /\ last' = Op("reload", "", "", "none", "undefined", <<"findOne">>)
         /\ UNCHANGED <<cls, hasColl, store, nextId, vin, vout, clone>>
  ELSE /\ last' = Op("reload", "", "", "none", "undefined", <<>>)
       /\ UNCHANGED <<cls, hasColl, values, modified, store, nextId, vin, vout, clone>>

Next ==
  \/ \E in \in SetInputs : Set(in[1], in[2])
  \/ \E pairs \in SetMappings : SetMapping(pairs)
  \/ \E writeFails \in BOOLEAN : Save(writeFails)
  \/ \E writeFails \in BOOLEAN : Remove(writeFails)
  \/ Reload

Spec == Init /\ [][Next]_vars

(***************************************************************************)
(* clone(attrs, save) and the operations on the instance it returns        *)
(***************************************************************************)
\* The instance clone returns: new Class() with _values and _modified
\* assigned, and the keys of attrs as properties of the instance itself
TheClone(c, vals, mods, props) ==
  [made |-> TRUE, cls |-> c, values |-> vals, modified |-> mods, props |-> props]

\* The attrs given to clone: none, or an object
CloneAttrs == {EmptyMap, [n |-> "sb"]}

\* The calls set(name, value) on the original while a clone may exist
OriginalSetInputs == { <<"n", "n1">>, <<"p", "s">> }

\* The calls set(name, value) on the clone; id0 is the _id of the document
\* the original was loaded from
CloneSetInputs == { <<"_id", "id0">>, <<"n", "n0">>, <<"p", "sa">> }

\* save() on an instance with the given _values and _modified, once the
\* collection is found: the instance, the collection and the outcome
\* afterwards
instanceSave(vals, mods, c, st, nid, writeFails) ==
  LET update == saveUpdate(vals)
      before == <<"beforeSave", IF update THEN "beforeUpdate" ELSE "beforeInsert">>
      written == saveValues(vals, mods, c)
      write == IF update THEN "update" ELSE "insert"
      id == IF update THEN vals["_id"]
            ELSE IF "_id" \in DOMAIN written THEN written["_id"]
            ELSE IdValue(nid)
      after == <<IF update THEN "afterUpdate" ELSE "afterInsert", "afterSave",
                "extend", "clear">>
      same == [values |-> vals, modified |-> mods, store |-> st, nextId |-> nid]
  IN  IF Cardinality(DOMAIN written) = 0
        THEN same @@ [threw |-> "none", result |-> "false", log |-> before]
      ELSE IF writeFails
        THEN same @@ [threw |-> "write error", result |-> "undefined",
                      log |-> Append(before, write)]
      ELSE [values |-> Extend(IF update THEN vals ELSE Put(vals, "_id", id), written),
            modified |-> EmptyMap,
            store |-> IF update THEN collectionUpdate(st, id, written)
                                ELSE collectionInsert(st, id, written),
            nextId |-> IF update \/ "_id" \in DOMAIN written THEN nid ELSE nid + 1,
            threw |-> "none",
            result |-> IF ~update THEN id ELSE IF id \in DOMAIN st THEN "n1" ELSE "n0",
            log |-> Append(before, write) \o after]

\* Whether that save generates an id
instanceSaveGenerates(vals, mods, c) ==
  /\ ~saveUpdate(vals)
  /\ Cardinality(DOMAIN saveValues(vals, mods, c)) # 0
  /\ "_id" \notin DOMAIN saveValues(vals, mods, c)

\* A clone that copies _values and _modified with their _id
CloneKeepsId(attrs, save) ==
  /\ ~clone.made
  /\ LET cloned == TheClone(cls, values, modified, attrs)
     IN  IF ~save
           THEN /\ clone' = cloned
                /\ last' = Op("clone", "", "nosave", "none", "undefined", <<>>)
                /\ UNCHANGED <<cls, hasColl, values, modified, store, nextId, vin, vout>>
         ELSE IF ~hasColl
           THEN /\ last' = Op("clone", "", "save", "There is no collection to save to",
                              "undefined", <<>>)
                /\ UNCHANGED <<cls, hasColl, values, modified, store, nextId, vin, vout, clone>>
         ELSE LET r == instanceSave(cloned.values, cloned.modified, cls, store, nextId, FALSE)
              IN  /\ instanceSaveGenerates(cloned.values, cloned.modified, cls)
                       => nextId <= MaxInserts
                  /\ IF r.threw = "none"
                       THEN clone' = [cloned EXCEPT !.values = r.values,
                                                    !.modified = r.modified]
                       ELSE clone' = clone
                  /\ store' = r.store
                  /\ nextId' = r.nextId
                  /\ last' = Op("clone", "", "save", r.threw, "undefined", r.log)
                  /\ UNCHANGED <<cls, hasColl, values, modified, vin, vout>>

\* clone(attrs, save)
Clone(attrs, save) ==
  /\ ~clone.made
  /\ LET cloned == TheClone(cls, Omit(values, "_id"), Omit(modified, "_id"), attrs)
     IN  IF ~save
           THEN /\ clone' = cloned
                /\ last' = Op("clone", "", "nosave", "none", "undefined", <<>>)
                /\ UNCHANGED <<cls, hasColl, values, modified, store, nextId, vin, vout>>
         ELSE IF ~hasColl
           THEN /\ last' = Op("clone", "", "save", "There is no collection to save to",
                              "undefined", <<>>)
                /\ UNCHANGED <<cls, hasColl, values, modified, store, nextId, vin, vout, clone>>
         ELSE LET r == instanceSave(cloned.values, cloned.modified, cls, store, nextId, FALSE)
              IN  /\ instanceSaveGenerates(cloned.values, cloned.modified, cls)
                       => nextId <= MaxInserts
                  /\ IF r.threw = "none"
                       THEN clone' = [cloned EXCEPT !.values = r.values,
                                                    !.modified = r.modified]
                       ELSE clone' = clone
                  /\ store' = r.store
                  /\ nextId' = r.nextId
                  /\ last' = Op("clone", "", "save", r.threw, "undefined", r.log)
                  /\ UNCHANGED <<cls, hasColl, values, modified, vin, vout>>

\* set(name, value) on the clone
CloneSet(name, v) ==
  /\ clone.made
  /\ LET r == setOne(clone.values, clone.modified, clone.cls, name, v)
     IN  /\ clone' = [clone EXCEPT !.modified = r.modified]
         /\ last' = Op("clone.set", name, v, r.threw, "undefined", <<>>)
         /\ UNCHANGED <<cls, hasColl, values, modified, store, nextId, vin, vout>>

\* save() on the clone
CloneSave(writeFails) ==
  /\ clone.made
  /\ IF ~hasColl
       THEN /\ last' = Op("clone.save", "", "", "There is no collection to save to",
                          "undefined", <<>>)
            /\ UNCHANGED <<cls, hasColl, values, modified, store, nextId, vin, vout, clone>>
     ELSE LET r == instanceSave(clone.values, clone.modified, clone.cls, store, nextId,
                                writeFails)
          IN  /\ (~writeFails /\ instanceSaveGenerates(clone.values, clone.modified, clone.cls))
                   => nextId <= MaxInserts
              /\ clone' = [clone EXCEPT !.values = r.values, !.modified = r.modified]
              /\ store' = r.store
              /\ nextId' = r.nextId
              /\ last' = Op("clone.save", "", "", r.threw, r.result, r.log)
              /\ UNCHANGED <<cls, hasColl, values, modified, vin, vout>>

\* remove() on the clone
CloneRemove ==
  /\ clone.made
  /\ IF ~hasColl
       THEN /\ last' = Op("clone.remove", "", "", "There is no collection to remove from",
                          "undefined", <<>>)
            /\ UNCHANGED <<cls, hasColl, values, modified, store, nextId, vin, vout, clone>>
     ELSE IF ~Truthy(At(clone.values, "_id"))
       THEN /\ last' = Op("clone.remove", "", "", "none", "undefined", <<>>)
            /\ UNCHANGED <<cls, hasColl, values, modified, store, nextId, vin, vout, clone>>
     ELSE /\ store' = collectionRemove(store, clone.values["_id"])
          /\ clone' = [clone EXCEPT !.values = Put(clone.values, "_id", "null")]
          /\ last' = Op("clone.remove", "", "", "none",
                        IF clone.values["_id"] \in DOMAIN store THEN "n1" ELSE "n0",
                        <<"beforeRemove", "remove", "afterRemove", "resetId">>)
          /\ UNCHANGED <<cls, hasColl, values, modified, nextId, vin, vout>>

\* An instance, new or loaded, that is cloned at most once
InitClone ==
  /\ cls \in Classes
  /\ hasColl \in BOOLEAN
  /\ values \in {EmptyMap, StoredDoc}
  /\ modified = EmptyMap
  /\ store = ("id0" :> StoredDoc)
  /\ nextId = 1
  /\ last = NoOp
  /\ vin = NoValidation
  /\ vout = NoValidation
  /\ clone = NoClone

NextClone ==
  \/ \E in \in OriginalSetInputs : Set(in[1], in[2])
  \/ Save(FALSE)
  \/ Remove(FALSE)
  \/ \E attrs \in CloneAttrs : \E save \in BOOLEAN : Clone(attrs, save)
  \/ \E in \in CloneSetInputs : CloneSet(in[1], in[2])
  \/ \E writeFails \in BOOLEAN : CloneSave(writeFails)
  \/ CloneRemove

SpecClone == InitClone /\ [][NextClone]_vars

(***************************************************************************)
(* documentValidate.  A document is [k |-> "doc", class, vals]; a plain    *)
(* object not yet cast to its class is [k |-> "plain", vals]; a list is    *)
(* [k |-> "list", elems]; any other value is [k |-> "prim", tok].  A field *)
(* name is the sequence of its dot-separated segments, and so are a prefix *)
(* and the path of an error: 'author.name' is <<"author", "name">>.        *)
(***************************************************************************)
Prim(t) == [k |-> "prim", tok |-> t]

Doc(c, vs) == [k |-> "doc", class |-> c, vals |-> vs]

Plain(vs) == [k |-> "plain", vals |-> vs]

List(es) == [k |-> "list", elems |-> es]

\* _.isNil(value)
isNil(value) == value.k = "prim" /\ value.tok \in {"undefined", "null"}

\* The fields of the classes, in the order Class.getValidationOrder() gives
ValidationFields(c) ==
  IF c = "Post" THEN
    << [name |-> "title", kind |-> "scalar", type |-> "String", isClass |-> FALSE,
        transient |-> FALSE, optional |-> FALSE,
        validators |-> << [type |-> "minLength", param |-> 2],
                          [type |-> "choice", param |-> {"sab"}] >>],
       [name |-> "draft", kind |-> "object", type |-> "User", isClass |-> TRUE,
        transient |-> TRUE, optional |-> FALSE,
        validators |-> << [type |-> "choice", param |-> {}] >>],
       [name |-> "note", kind |-> "scalar", type |-> "String", isClass |-> FALSE,
        transient |-> FALSE, optional |-> TRUE,
        validators |-> << [type |-> "minLength", param |-> 2] >>],
       [name |-> "author", kind |-> "object", type |-> "User", isClass |-> TRUE,
        transient |-> FALSE, optional |-> FALSE, validators |-> << >>],
       [name |-> "comments", kind |-> "list", type |-> "User", isClass |-> TRUE,
        transient |-> FALSE, optional |-> FALSE, validators |-> << >>] >>
  ELSE IF c = "User" THEN
    << [name |-> "name", kind |-> "scalar", type |-> "String", isClass |-> FALSE,
        transient |-> FALSE, optional |-> FALSE,
        validators |-> << [type |-> "minLength", param |-> 2] >>],
       [name |-> "address", kind |-> "object", type |-> "Address", isClass |-> TRUE,
        transient |-> FALSE, optional |-> TRUE, validators |-> << >>] >>
  ELSE
    << [name |-> "city", kind |-> "scalar", type |-> "String", isClass |-> FALSE,
        transient |-> FALSE, optional |-> FALSE, validators |-> << >>] >>

\* Class.getValidationOrder()
getValidationOrder(c) ==
  [i \in 1..Len(ValidationFields(c)) |-> <<ValidationFields(c)[i].name>>]

\* Class.getField(name): whether the class has the field, and the field
classHasField(c, name) ==
  \E i \in 1..Len(ValidationFields(c)) : ValidationFields(c)[i].name = name

classGetField(c, name) ==
  ValidationFields(c)[CHOOSE i \in 1..Len(ValidationFields(c)) :
                        ValidationFields(c)[i].name = name]

\* Class.getValidators(name)
getValidators(c, name) == classGetField(c, name).validators

\* doc.get(name)
docGet(doc, name) == doc.vals[name]

\* field.cast of castNested: a plain object held by an object field, or by
\* a list of a class, becomes an instance of the class, and so do the plain
\* objects it holds
RECURSIVE castDoc(_, _)
castValue(field, value) ==
  IF field.kind = "object" /\ value.k \in {"plain", "doc"}
    THEN castDoc(field.type, value.vals)
  ELSE IF field.kind = "list" /\ field.isClass /\ value.k = "list"
    THEN List([i \in 1..Len(value.elems) |->
                 IF value.elems[i].k \in {"plain", "doc"}
                   THEN castDoc(field.type, value.elems[i].vals)
                   ELSE value.elems[i]])
  ELSE value

castDoc(c, vs) ==
  Doc(c, [n \in DOMAIN vs |->
            IF classHasField(c, n) THEN castValue(classGetField(c, n), vs[n]) ELSE vs[n]])

\* castNested({doc})
castNested(doc) == castDoc(doc.class, doc.vals)

\* isNestedFieldName(name): the name holds a dot
isNestedFieldName(name) == Len(name) > 1

\* traverse(doc, name, callback): the documents and field names the callback
\* is called with.  The segments before the last one are followed through
\* the fields of documents and the elements of lists.
RECURSIVE traverse(_, _)
traverse(value, name) ==
  IF Len(name) = 1
    THEN (IF value.k = "doc" THEN <<[doc |-> value, name |-> name]>> ELSE << >>)
  ELSE IF value.k = "doc" /\ name[1] \in DOMAIN value.vals
    THEN traverse(value.vals[name[1]], Tail(name))
  ELSE IF value.k = "list"
            /\ \E i \in 1..Len(value.elems) : ToString(i - 1) = name[1]
    THEN traverse(value.elems[CHOOSE i \in 1..Len(value.elems) : ToString(i - 1) = name[1]],
                  Tail(name))
  ELSE << >>

\* The details of the ValidationError a check throws
Detail(path, type) == <<[name |-> path, type |-> type]>>

\* field.validate: the type-level check.  The details thrown; none when
\* the value passes.
typeError(field, value) ==
  IF isNil(value) THEN "required"
  ELSE IF field.kind = "scalar"
    THEN (IF value.k = "prim" /\ value.tok \in {"s", "sa", "sab"} THEN "none" ELSE "string")
  ELSE IF field.kind = "object"
    THEN (IF value.k = "doc" /\ value.class = field.type THEN "none" ELSE "object")
  ELSE (IF value.k = "list" THEN "none" ELSE "array")

\* The length of a string value
StringLength(tok) == IF tok = "s" THEN 0 ELSE IF tok = "sa" THEN 1 ELSE 2

\* Validators[type]: whether the validator rejects the value
validatorRejects(validator, value) ==
  IF validator.type = "minLength"
    THEN ~(value.k = "prim" /\ value.tok \in {"s", "sa", "sab"}
           /\ StringLength(value.tok) >= validator.param)
    ELSE ~(value.k = "prim" /\ value.tok \in validator.param)

\* What a call did: whether it threw, the details of the ValidationError
\* thrown, and the checks it executed, in order, each with its outcome
Outcome(threw, details, log) == [threw |-> threw, details |-> details, log |-> log]

Check(path, type, ok) == [path |-> path, check |-> type, ok |-> ok]

\* The validators of a field from the i-th on: each is executed until one
\* throws
RECURSIVE runValidators(_, _, _, _)
runValidators(validators, i, path, value) ==
  IF i > Len(validators) THEN Outcome(FALSE, << >>, << >>)
  ELSE IF validatorRejects(validators[i], value)
    THEN Outcome(TRUE, Detail(path, validators[i].type),
                 <<Check(path, validators[i].type, FALSE)>>)
  ELSE LET r == runValidators(validators, i + 1, path, value)
       IN  Outcome(r.threw, r.details,
                   <<Check(path, validators[i].type, TRUE)>> \o r.log)

\* Checks of a field that go on after a failure: every validator is
\* executed and every failure is among the details thrown
RECURSIVE runEveryValidator(_, _, _, _)
runEveryValidator(validators, i, path, value) ==
  IF i > Len(validators) THEN Outcome(FALSE, << >>, << >>)
  ELSE LET r == runEveryValidator(validators, i + 1, path, value)
           rejects == validatorRejects(validators[i], value)
       IN  Outcome(rejects \/ r.threw,
                   (IF rejects THEN Detail(path, validators[i].type) ELSE << >>) \o r.details,
                   <<Check(path, validators[i].type, ~rejects)>> \o r.log)

fieldChecksRunsEvery(field, validators, path, value) ==
  LET r == runEveryValidator(validators, 1, path, value)
      failed == typeError(field, value) # "none"
  IN  Outcome(failed \/ r.threw,
              (IF failed THEN Detail(path, typeError(field, value)) ELSE << >>) \o r.details,
              <<Check(path, "type", ~failed)>> \o r.log)

\* The function given to catchValidationError for one field: the type-level
\* check, then the validators of the field
fieldChecks(field, validators, path, value) ==
  IF typeError(field, value) # "none"
    THEN Outcome(TRUE, Detail(path, typeError(field, value)),
                 <<Check(path, "type", FALSE)>>)
  ELSE LET r == runValidators(validators, 1, path, value)
       IN  Outcome(r.threw, r.details, <<Check(path, "type", TRUE)>> \o r.log)

\* The walk so far: the errors collected, the checks executed, and the
\* ValidationError thrown out of the walk, if one was
Walk(errors, log, threw, details) ==
  [errors |-> errors, log |-> log, threw |-> threw, details |-> details]

\* A catchValidationError that collects the details whatever the mode
catchCollectsAlways(acc, r, stopOnFirstError) ==
  IF ~r.threw THEN Walk(acc.errors, acc.log \o r.log, FALSE, << >>)
  ELSE Walk(acc.errors \o r.details, acc.log \o r.log, FALSE, << >>)

\* A catchValidationError that keeps the details of the last error only
catchKeepsLast(acc, r, stopOnFirstError) ==
  IF ~r.threw THEN Walk(acc.errors, acc.log \o r.log, FALSE, << >>)
  ELSE IF stopOnFirstError THEN Walk(acc.errors, acc.log \o r.log, TRUE, r.details)
  ELSE Walk(r.details, acc.log \o r.log, FALSE, << >>)

\* catchValidationError(func), r being what func did: a ValidationError is
\* thrown again when stopOnFirstError is set, and its details are collected
\* otherwise
catchValidationError(acc, r, stopOnFirstError) ==
  IF ~r.threw THEN Walk(acc.errors, acc.log \o r.log, FALSE, << >>)
  ELSE IF stopOnFirstError THEN Walk(acc.errors, acc.log \o r.log, TRUE, r.details)
  ELSE Walk(acc.errors \o r.details, acc.log \o r.log, FALSE, << >>)

RECURSIVE documentValidate(_, _, _, _, _, _)
RECURSIVE validateFields(_, _, _, _, _, _, _, _)
RECURSIVE validateTargets(_, _, _, _, _, _, _, _)
RECURSIVE validateElements(_, _, _, _, _, _, _)

\* The callback of traverse, for the targets from the i-th on
validateTargets(targets, i, name, prefix, stopOnFirstError, simulation, isServer, acc) ==
  IF i > Len(targets) \/ acc.threw THEN acc
  ELSE validateTargets(targets, i + 1, name, prefix, stopOnFirstError, simulation, isServer,
         catchValidationError(acc,
           documentValidate(targets[i].doc, [given |-> TRUE, names |-> <<targets[i].name>>],
                            prefix \o SubSeq(name, 1, Len(name) - 1),
                            stopOnFirstError, simulation, isServer),
           stopOnFirstError))

\* The elements of a list of a class, from the i-th on
validateElements(elems, i, fieldName, prefix, stopOnFirstError, isServer, acc) ==
  IF i > Len(elems) \/ acc.threw THEN acc
  ELSE validateElements(elems, i + 1, fieldName, prefix, stopOnFirstError, isServer,
         IF elems[i].k = "doc"
           THEN catchValidationError(acc,
                  documentValidate(elems[i],
                                   [given |-> TRUE, names |-> getValidationOrder(elems[i].class)],
                                   prefix \o <<fieldName, ToString(i - 1)>>,
                                   stopOnFirstError, TRUE, isServer),
                  stopOnFirstError)
           ELSE acc)

\* A loop body that tags the errors of nested documents with the path from
\* the document that holds them
validateFieldRelativePaths(doc, name, prefix, stopOnFirstError, isServer, acc) ==
  IF ~classHasField(doc.class, name) THEN acc
  ELSE LET field == classGetField(doc.class, name)
           value == docGet(doc, name)
       IN  IF field.transient THEN acc
           ELSE IF field.optional /\ isNil(value) THEN acc
           ELSE LET own == catchValidationError(acc,
                             fieldChecks(field, getValidators(doc.class, name),
                                         prefix \o <<name>>, value),
                             stopOnFirstError)
                IN  IF own.threw THEN own
                    ELSE IF field.kind = "object"
                      THEN (IF value.k = "doc"
                              THEN catchValidationError(own,
                                     documentValidate(value,
                                       [given |-> TRUE, names |-> getValidationOrder(value.class)],
                                       <<field.name>>,
                                       stopOnFirstError, TRUE, isServer),
                                     stopOnFirstError)
                              ELSE own)
                    ELSE IF field.kind = "list" /\ field.isClass
                      THEN (IF value.k = "list"
                              THEN validateElements(value.elems, 1, field.name, << >>,
                                                    stopOnFirstError, isServer, own)
                              ELSE own)
                    ELSE own

\* A loop body that does not skip an optional field whose value is absent
validateFieldChecksAbsent(doc, name, prefix, stopOnFirstError, isServer, acc) ==
  IF ~classHasField(doc.class, name) THEN acc
  ELSE LET field == classGetField(doc.class, name)
           value == docGet(doc, name)
       IN  IF field.transient THEN acc
           ELSE LET own == catchValidationError(acc,
                             fieldChecks(field, getValidators(doc.class, name),
                                         prefix \o <<name>>, value),
                             stopOnFirstError)
                IN  IF own.threw THEN own
                    ELSE IF field.kind = "object"
                      THEN (IF value.k = "doc"
                              THEN catchValidationError(own,
                                     documentValidate(value,
                                       [given |-> TRUE, names |-> getValidationOrder(value.class)],
                                       prefix \o <<field.name>>,
                                       stopOnFirstError, TRUE, isServer),
                                     stopOnFirstError)
                              ELSE own)
                    ELSE IF field.kind = "list" /\ field.isClass
                      THEN (IF value.k = "list"
                              THEN validateElements(value.elems, 1, field.name, prefix,
                                                    stopOnFirstError, isServer, own)
                              ELSE own)
                    ELSE own

\* A loop body that does not skip transient fields
validateFieldWithTransient(doc, name, prefix, stopOnFirstError, isServer, acc) ==
  IF ~classHasField(doc.class, name) THEN acc
  ELSE LET field == classGetField(doc.class, name)
           value == docGet(doc, name)
       IN  IF field.optional /\ isNil(value) THEN acc
           ELSE LET own == catchValidationError(acc,
                             fieldChecks(field, getValidators(doc.class, name),
                                         prefix \o <<name>>, value),
                             stopOnFirstError)
                IN  IF own.threw THEN own
                    ELSE IF field.kind = "object"
                      THEN (IF value.k = "doc"
                              THEN catchValidationError(own,
                                     documentValidate(value,
                                       [given |-> TRUE, names |-> getValidationOrder(value.class)],
                                       prefix \o <<field.name>>,
                                       stopOnFirstError, TRUE, isServer),
                                     stopOnFirstError)
                              ELSE own)
                    ELSE IF field.kind = "list" /\ field.isClass
                      THEN (IF value.k = "list"
                              THEN validateElements(value.elems, 1, field.name, prefix,
                                                    stopOnFirstError, isServer, own)
                              ELSE own)
                    ELSE own

\* The body of the loop over the names, for one name that is no nested
\* pattern
validateField(doc, name, prefix, stopOnFirstError, isServer, acc) ==
  IF ~classHasField(doc.class, name) THEN acc
  ELSE LET field == classGetField(doc.class, name)
           value == docGet(doc, name)
       IN  IF field.transient THEN acc
           ELSE IF field.optional /\ isNil(value) THEN acc
           ELSE LET own == catchValidationError(acc,
                             fieldChecks(field, getValidators(doc.class, name),
                                         prefix \o <<name>>, value),
                             stopOnFirstError)
                IN  IF own.threw THEN own
                    ELSE IF field.kind = "object"
                      THEN (IF value.k = "doc"
                              THEN catchValidationError(own,
                                     documentValidate(value,
                                       [given |-> TRUE, names |-> getValidationOrder(value.class)],
                                       prefix \o <<field.name>>,
                                       stopOnFirstError, TRUE, isServer),
                                     stopOnFirstError)
                              ELSE own)
                    ELSE IF field.kind = "list" /\ field.isClass
                      THEN (IF value.k = "list"
                              THEN validateElements(value.elems, 1, field.name, prefix,
                                                    stopOnFirstError, isServer, own)
                              ELSE own)
                    ELSE own

\* The loop over the names, from the i-th on; an error thrown out of the
\* loop ends it
validateFields(doc, names, i, prefix, stopOnFirstError, simulation, isServer, acc) ==
  IF i > Len(names) \/ acc.threw THEN acc
  ELSE validateFields(doc, names, i + 1, prefix, stopOnFirstError, simulation, isServer,
         IF isNestedFieldName(names[i])
           THEN validateTargets(traverse(doc, names[i]), 1, names[i], prefix,
                                stopOnFirstError, simulation, isServer, acc)
           ELSE validateField(doc, names[i][1], prefix, stopOnFirstError, isServer, acc))

\* A documentValidate that resets the title of a document it rejects
documentValidateResetsInvalid(doc, fields, prefix, stopOnFirstError, simulation, isServer) ==
  IF ~simulation /\ ~isServer
    THEN [ran |-> FALSE, threw |-> FALSE, details |-> << >>, log |-> << >>, doc |-> doc]
  ELSE LET cast == castNested(doc)
           names == IF fields.given THEN fields.names ELSE getValidationOrder(cast.class)
           w == validateFields(cast, names, 1, prefix, stopOnFirstError, simulation,
                               isServer, Walk(<< >>, << >>, FALSE, << >>))
           reset == Doc(cast.class, [n \in DOMAIN cast.vals |->
                                       IF n = "title" THEN Prim("null") ELSE cast.vals[n]])
       IN  IF w.threw
             THEN [ran |-> TRUE, threw |-> TRUE, details |-> w.details, log |-> w.log,
                   doc |-> reset]
           ELSE IF Len(w.errors) > 0
             THEN [ran |-> TRUE, threw |-> TRUE, details |-> w.errors, log |-> w.log,
                   doc |-> reset]
           ELSE [ran |-> TRUE, threw |-> FALSE, details |-> << >>, log |-> w.log,
                 doc |-> cast]

\* A documentValidate that casts the nested fields before it looks at the
\* simulation flag
documentValidateCastsFirst(doc, fields, prefix, stopOnFirstError, simulation, isServer) ==
  LET cast == castNested(doc)
  IN  IF ~simulation /\ ~isServer
        THEN [ran |-> FALSE, threw |-> FALSE, details |-> << >>, log |-> << >>, doc |-> cast]
      ELSE LET names == IF fields.given THEN fields.names ELSE getValidationOrder(cast.class)
               w == validateFields(cast, names, 1, prefix, stopOnFirstError, simulation,
                                   isServer, Walk(<< >>, << >>, FALSE, << >>))
           IN  IF w.threw
                 THEN [ran |-> TRUE, threw |-> TRUE, details |-> w.details, log |-> w.log,
                       doc |-> cast]
               ELSE IF Len(w.errors) > 0
                 THEN [ran |-> TRUE, threw |-> TRUE, details |-> w.errors, log |-> w.log,
                       doc |-> cast]
               ELSE [ran |-> TRUE, threw |-> FALSE, details |-> << >>, log |-> w.log,
                     doc |-> cast]

\* documentValidate({doc, fields, prefix, stopOnFirstError, simulation}),
\* Meteor.isServer being isServer.  What the call did: whether it went past
\* the simulation test, whether it threw, the details of the error, the
\* checks executed, and the document as the call leaves it (castNested
\* works on the document in place)
documentValidate(doc, fields, prefix, stopOnFirstError, simulation, isServer) ==
  IF ~simulation /\ ~isServer
    THEN [ran |-> FALSE, threw |-> FALSE, details |-> << >>, log |-> << >>, doc |-> doc]
  ELSE LET cast == castNested(doc)
           names == IF fields.given THEN fields.names ELSE getValidationOrder(cast.class)
           w == validateFields(cast, names, 1, prefix, stopOnFirstError, simulation,
                               isServer, Walk(<< >>, << >>, FALSE, << >>))
       IN  IF w.threw
             THEN [ran |-> TRUE, threw |-> TRUE, details |-> w.details, log |-> w.log,
                   doc |-> cast]
           ELSE IF Len(w.errors) > 0
             THEN [ran |-> TRUE, threw |-> TRUE, details |-> w.errors, log |-> w.log,
                   doc |-> cast]
           ELSE [ran |-> TRUE, threw |-> FALSE, details |-> << >>, log |-> w.log,
                 doc |-> cast]

(***************************************************************************)
(* The calls of documentValidate                                           *)
(***************************************************************************)
AddressDocs == {Doc("Address", [city |-> Prim(c)]) : c \in {"null", "sab"}}

UserDocs ==
  {Doc("User", [name |-> Prim(n), address |-> a]) :
     n \in {"sa", "sab"}, a \in {Prim("undefined")} \cup AddressDocs}

\* The elements of the lists: a valid user, one with an invalid name, one
\* with an address that has no city
ElementDocs ==
  {u \in UserDocs : u.vals.address.k = "prim" \/ (u.vals.name.tok = "sab"
                                                   /\ u.vals.address.vals.city.tok = "null")}

Lists == {List(es) : es \in UNION {[1..n -> ElementDocs] : n \in 0..MaxList}}

\* A plain object given for the author, not yet cast to User
PlainAuthor == Plain([name |-> Prim("sa"), address |-> Plain([city |-> Prim("null")])])

\* A draft with an invalid name
BadDraft == Doc("User", [name |-> Prim("sa"), address |-> Prim("undefined")])

PostDocs ==
  {Doc("Post", [title |-> Prim(t), draft |-> d, note |-> Prim(n), author |-> a,
                comments |-> l]) :
     t \in {"null", "sa", "sab"}, d \in {Prim("n1"), BadDraft},
     n \in {"undefined", "null", "sa", "sab"},
     a \in {Prim("null"), PlainAuthor} \cup UserDocs, l \in Lists}

\* The fields option: not given, or a list of names
FieldsOptions ==
  { [given |-> FALSE, names |-> << >>],
    [given |-> TRUE, names |-> << <<"comments">>, <<"nope">>, <<"draft">>, <<"title">> >>],
    [given |-> TRUE, names |-> << <<"author", "address", "city">>, <<"draft", "name">>,
                                  <<"comments", "0", "name">>, <<"author", "name">> >>] }

\* simulation, Meteor.isServer and the prefix of the call
Contexts ==
  { [simulation |-> TRUE, isServer |-> TRUE, prefix |-> << >>],
    [simulation |-> FALSE, isServer |-> TRUE, prefix |-> <<"root">>],
    [simulation |-> TRUE, isServer |-> FALSE, prefix |-> << >>],
    [simulation |-> FALSE, isServer |-> FALSE, prefix |-> << >>] }

InitValidate ==
  /\ cls = "Parent"
  /\ hasColl = FALSE
  /\ values = EmptyMap
  /\ modified = EmptyMap
  /\ store = EmptyMap
  /\ nextId = 1
  /\ last = NoOp
  /\ vout = NoValidation
  /\ clone = NoClone
  /\ \E doc \in PostDocs, fields \in FieldsOptions, stop \in BOOLEAN, ctx \in Contexts :
       vin = [called |-> TRUE, doc |-> doc, fields |-> fields, prefix |-> ctx.prefix,
              stopOnFirstError |-> stop, simulation |-> ctx.simulation,
              isServer |-> ctx.isServer]

\* The call documentValidate(vin)
Validate ==
  /\ ~vout.called
  /\ vout' = [called |-> TRUE] @@
              documentValidate(vin.doc, vin.fields, vin.prefix, vin.stopOnFirstError,
                               vin.simulation, vin.isServer)
  /\ UNCHANGED <<cls, hasColl, values, modified, store, nextId, last, vin, clone>>

NextValidate == Validate

SpecValidate == InitValidate /\ [][NextValidate]_vars

(***************************************************************************)
(* What the claims speak of                                                *)
(***************************************************************************)
\* The names the operations are asked about
AllNames == {"_id", "_type", "n", "p", "zz"}

\* The positions in the chain of class c of the classes that declare name
Declaring(c, name) == {i \in 1..Len(Chain(c)) : name \in DOMAIN SchemaFields(Chain(c)[i])}

\* The default of name as declared by the nearest class of the chain of c;
\* undefined when no class declares it
NearestDefault(c, name) ==
  IF Declaring(c, name) = {} THEN "undefined"
  ELSE LET i == CHOOSE j \in Declaring(c, name) : \A k \in Declaring(c, name) : j <= k
       IN  SchemaFields(Chain(c)[i])[name].default

\* modified > values > default
Precedence(vals, mods, c, name) ==
  IF name \in DOMAIN mods THEN mods[name]
  ELSE IF name \in DOMAIN vals THEN vals[name]
  ELSE NearestDefault(c, name)

\* C4 (as claimed): in every reachable state get(name) is the pending value
\* if modified has the key, else the stored value if values has the key,
\* else the default declared by the nearest class, else undefined.
C4_GetPrecedence_Claimed ==
  \A name \in AllNames :
    get(values, modified, cls, name) = Precedence(values, modified, cls, name)

\* C4 (amended): the precedence holds for every name other than _id, and
\* for _id while the stored _id is truthy; while the stored _id is falsy
\* get('_id') is undefined whatever modified and values hold.
C4_GetPrecedence ==
  \A name \in AllNames :
    IF name = "_id" /\ ~Truthy(At(values, "_id"))
      THEN get(values, modified, cls, name) = "undefined"
      ELSE get(values, modified, cls, name) = Precedence(values, modified, cls, name)

\* C4 witness: after a save and later sets, a pending value hides a
\* different stored one, a stored value hides a default, and a pending _id
\* is held while the stored _id is falsy.
C4_Witness ==
  /\ "n" \in DOMAIN modified /\ "n" \in DOMAIN values /\ modified["n"] # values["n"]
  /\ "p" \in DOMAIN values /\ "p" \notin DOMAIN modified
  /\ values["p"] # NearestDefault(cls, "p")
  /\ "_id" \in DOMAIN modified /\ At(values, "_id") = "null"

\* The step is a call set(name, v) that returned; w is the cast of v
SetStep(name, v) ==
  /\ last' = [op |-> "set", name |-> name, arg |-> v, threw |-> "none",
              result |-> "undefined", log |-> <<>>]

CastOf(name, v) == castThroughChain(Chain(cls), name, v)

\* C5 (as claimed): a set(name, v) whose cast value equals the value
\* currently resolved for name (from modified, from values or from the
\* default) leaves modified unchanged.
C5_SetSameValue_Claimed ==
  [][\A in \in SetInputs :
       (SetStep(in[1], in[2])
          /\ CastOf(in[1], in[2]) = get(values, modified, cls, in[1]))
       => modified' = modified]_vars

\* C5 (amended): set(name, v) leaves modified unchanged when the cast of v
\* equals the pending value modified[name], or is strictly equal to a truthy
\* stored value values[name]; when name has no pending value and the cast
\* of v equals a falsy stored value, or the field default of a name that
\* values does not hold, set adds name to modified with that value.
C5_SetSameValue ==
  [][\A in \in SetInputs :
       SetStep(in[1], in[2]) =>
         LET name == in[1]
             w == CastOf(in[1], in[2])
         IN  /\ ((name \in DOMAIN modified /\ modified[name] = w)
                   \/ (Truthy(At(values, name)) /\ At(values, name) = w))
                 => modified' = modified
             /\ (name \notin DOMAIN modified /\ ~Truthy(At(values, name))
                   /\ w = Precedence(values, modified, cls, name))
                 => (modified' = Put(modified, name, w) /\ modified' # modified)]_vars

\* C5 witness: set('n', 1) has just returned on a loaded document whose
\* stored n is 1, and nothing is pending.
C5_Witness ==
  /\ last.op = "set" /\ last.name = "n" /\ last.arg = "n1" /\ last.threw = "none"
  /\ At(values, "n") = "n1"
  /\ modified = EmptyMap

\* C6 (as claimed): when the stored value of name is falsy (0, false, ''),
\* set(name, v) with v that stored value records name in modified; and a
\* set that returns fails to write only when the stored value is truthy and
\* strictly equal to the cast value.
C6_FalsyStored_Claimed ==
  [][\A in \in SetInputs :
       SetStep(in[1], in[2]) =>
         LET name == in[1]
             w == CastOf(in[1], in[2])
         IN  /\ (name \in DOMAIN values /\ values[name] \in {"n0", "false", "s"}
                   /\ in[2] = values[name])
                 => (name \in DOMAIN modified' /\ modified'[name] = w)
             /\ ~(Truthy(At(values, name)) /\ At(values, name) = w)
                 => (name \in DOMAIN modified' /\ modified'[name] = w)]_vars

\* C6 (amended): as claimed, except that set('_id', v) on a document whose
\* stored _id is truthy never writes, whatever v is.
C6_FalsyStored ==
  [][\A in \in SetInputs :
       SetStep(in[1], in[2]) =>
         LET name == in[1]
             w == CastOf(in[1], in[2])
         IN  /\ (name \in DOMAIN values /\ values[name] \in {"n0", "false", "s"}
                   /\ in[2] = values[name])
                 => (name \in DOMAIN modified' /\ modified'[name] = w)
             /\ (~(Truthy(At(values, name)) /\ At(values, name) = w)
                   /\ ~(name = "_id" /\ Truthy(At(values, "_id"))))
                 => (name \in DOMAIN modified' /\ modified'[name] = w)
             /\ ((Truthy(At(values, name)) /\ At(values, name) = w)
                   \/ (name = "_id" /\ Truthy(At(values, "_id"))))
                 => modified' = modified]_vars

\* C6 witness: set('n', 0) has just returned on a document whose stored n
\* is 0, and n is now pending with the value 0.
C6_Witness ==
  /\ last.op = "set" /\ last.name = "n" /\ last.arg = "n0" /\ last.threw = "none"
  /\ "n" \in DOMAIN values /\ values["n"] = "n0"
  /\ "n" \in DOMAIN modified /\ modified["n"] = "n0"

\* The _id of the document, wherever it is held: what get('_id') returns,
\* else the stored _id, else the pending one
DocumentId(vals, mods, c) ==
  IF get(vals, mods, c, "_id") # "undefined" THEN get(vals, mods, c, "_id")
  ELSE IF Truthy(At(vals, "_id")) THEN vals["_id"]
  ELSE At(mods, "_id")

\* C7 (as claimed): set('_id', x) with x truthy followed by set('_id', y)
\* leaves the _id of the document equal to x.
C7_IdKeptAfterFirstSet ==
  [][(/\ last.op = "set" /\ last.name = "_id" /\ Truthy(last.arg)
      /\ last.threw = "none"
      /\ last'.op = "set" /\ last'.name = "_id" /\ last'.threw = "none")
     => DocumentId(values', modified', cls) = CastOf("_id", last.arg)]_vars

\* The default getModified(true) is claimed to return for a modified key
\* that values does not hold
OldValueClaimed(vals, c, k) == IF k \in DOMAIN vals THEN vals[k] ELSE NearestDefault(c, k)

\* C8 (as claimed): getModified(true) maps every modified key held by
\* values to the stored value, and every modified key of a declared field
\* that values does not hold to the default of the field.
C8_GetModifiedOld ==
  LET old == getModified(values, modified, cls, TRUE)
  IN  \A k \in DOMAIN modified :
        (k \in DOMAIN values \/ Declaring(cls, k) # {})
          => (k \in DOMAIN old /\ old[k] = OldValueClaimed(values, cls, k))

\* The step is a save() that wrote to the collection and returned
SaveStep ==
  /\ last'.op = "save" /\ last'.threw = "none" /\ last'.result # "false"

\* C9 (as claimed): after a save that inserted or updated, modified is
\* empty and every pair of modified before the save is in values, and get
\* returns for each such key what it returned before.
C9_SaveFolds_Claimed ==
  [][SaveStep =>
       /\ modified' = EmptyMap
       /\ \A k \in DOMAIN modified :
            /\ k \in DOMAIN values' /\ values'[k] = modified[k]
            /\ get(values', modified', cls, k) = get(values, modified, cls, k)]_vars

\* C9 (amended): after a save that inserted or updated, modified is empty
\* and every pair of modified whose key is a declared field other than _id
\* is in values, get returning the same for each such key before and after;
\* the pending values of other keys (an undeclared field, a pending _id)
\* are not written and are dropped from modified all the same.
C9_SaveFolds ==
  [][SaveStep =>
       /\ modified' = EmptyMap
       /\ \A k \in DOMAIN modified :
            IF k \in getFieldsNames(cls) \ {"_id"}
              THEN /\ k \in DOMAIN values' /\ values'[k] = modified[k]
                   /\ get(values', modified', cls, k) = get(values, modified, cls, k)
                   /\ values'["_id"] \in DOMAIN store'
                        => store'[values'["_id"]][k] = modified[k]
              ELSE /\ At(values', k) = At(Put(values, "_id", values'["_id"]), k)
                   /\ values'["_id"] \in DOMAIN store'
                        => k \notin DOMAIN store'[values'["_id"]] \ {"_id"}]_vars

\* C9 witness: a save has just updated the stored document, writing a
\* pending n that differed from the stored one.
C9_Witness ==
  /\ last.op = "save" /\ last.threw = "none" /\ last.log[2] = "beforeUpdate"
  /\ Len(last.log) = 7
  /\ modified = EmptyMap
  /\ At(values, "n") = "n1" /\ At(values, "_id") = "id0"
  /\ store["id0"]["n"] = "n1"

(***************************************************************************)
(* The validation walk, as the claims describe it                          *)
(***************************************************************************)
\* The document the walk reads: the one given, its nested fields cast
WalkedDoc == castNested(vin.doc)

\* The names validated: the ones given, or the validation order
WalkedNames ==
  IF vin.fields.given THEN vin.fields.names ELSE getValidationOrder(WalkedDoc.class)

\* A field of a document that validation has to check, with the path its
\* errors are to be tagged with
Site(path, field, value) == [path |-> path, field |-> field, value |-> value]

\* The fields to check in a document for a set of plain names: those that
\* exist, are not transient and are not optional and absent, and those of
\* the documents they hold
RECURSIVE SitesOf(_, _, _)
SitesOf(doc, names, prefix) ==
  UNION { LET field == classGetField(doc.class, n)
              value == doc.vals[n]
          IN  IF field.transient \/ (field.optional /\ isNil(value)) THEN {}
              ELSE {Site(prefix \o <<n>>, field, value)}
                   \cup (IF field.kind = "object" /\ value.k = "doc"
                           THEN SitesOf(value, {f.name : f \in
                                   {ValidationFields(value.class)[i] :
                                      i \in 1..Len(ValidationFields(value.class))}},
                                 prefix \o <<n>>)
                         ELSE IF field.kind = "list" /\ field.isClass /\ value.k = "list"
                           THEN UNION { IF value.elems[i].k = "doc"
                                          THEN SitesOf(value.elems[i], {f.name : f \in
                                                 {ValidationFields(value.elems[i].class)[j] :
                                                    j \in 1..Len(ValidationFields(value.elems[i].class))}},
                                               prefix \o <<n, ToString(i - 1)>>)
                                          ELSE {} : i \in 1..Len(value.elems) }
                         ELSE {})
        : n \in {m \in names : classHasField(doc.class, m)} }

\* The fields to check for the names of the call
ExpectedSites ==
  UNION { LET name == WalkedNames[i]
          IN  IF Len(name) = 1 THEN SitesOf(WalkedDoc, {name[1]}, vin.prefix)
              ELSE UNION { SitesOf(t.doc, {t.name[1]}, vin.prefix \o SubSeq(name, 1, Len(name) - 1))
                           : t \in {traverse(WalkedDoc, name)[j] :
                                      j \in 1..Len(traverse(WalkedDoc, name))} }
        : i \in 1..Len(WalkedNames) }

\* The first check of a field that its value fails, "none" if it passes all
FirstFailure(field, value) ==
  IF typeError(field, value) # "none" THEN typeError(field, value)
  ELSE IF \E i \in 1..Len(field.validators) : validatorRejects(field.validators[i], value)
    THEN field.validators[CHOOSE i \in 1..Len(field.validators) :
           /\ validatorRejects(field.validators[i], value)
           /\ \A j \in 1..(i - 1) : ~validatorRejects(field.validators[j], value)].type
  ELSE "none"

FailingSites == {st \in ExpectedSites : FirstFailure(st.field, st.value) # "none"}

\* The indices of the failed checks of a log
Failed(log) == {i \in 1..Len(log) : ~log[i].ok}

\* The paths of the failed checks of a log, in the order of the log
RECURSIVE FailurePaths(_)
FailurePaths(log) ==
  IF log = << >> THEN << >>
  ELSE (IF Head(log).ok THEN << >> ELSE <<Head(log).path>>) \o FailurePaths(Tail(log))

\* The paths of the details of an error, in their order
DetailPaths(details) == [i \in 1..Len(details) |-> details[i].name]

\* The place of a path in the walk: the index, among the names validated,
\* of the name the path lies under
IsPrefix(a, b) == Len(a) <= Len(b) /\ SubSeq(b, 1, Len(a)) = a

NameIndex(path) ==
  CHOOSE i \in 1..Len(WalkedNames) : IsPrefix(vin.prefix \o WalkedNames[i], path)

\* The number a list index segment stands for
IndexOf(seg) == CHOOSE n \in 0..(MaxList + 1) : ToString(n) = seg

\* The checks of a log are in walk order: the names in the order given;
\* under one name the checks of the field itself before those of the
\* documents it holds, the type-level check first and each check once; the
\* elements of a list by ascending index.  The checks of one name then
\* follow one another, so that the order of the names, of the depths and of
\* the indices is that of each check and the next one.
WalkOrdered(log) ==
  /\ \A i, j \in 1..Len(log) :
        (i < j /\ log[i].path = log[j].path)
          => (log[j].check # "type" /\ log[i].check # log[j].check /\ log[i].ok)
  /\ \A i \in 1..(Len(log) - 1) :
        LET a == log[i]
            b == log[i + 1]
            depth == Len(vin.prefix) + 1
            ia == NameIndex(a.path)
            ib == NameIndex(b.path)
        IN  /\ ia <= ib
            /\ (ia = ib /\ Len(WalkedNames[ia]) = 1)
                => /\ ~(Len(a.path) > depth /\ Len(b.path) = depth)
                   /\ (Len(a.path) > depth + 1 /\ Len(b.path) > depth + 1
                        /\ a.path[depth] = "comments")
                       => IndexOf(a.path[depth + 1]) <= IndexOf(b.path[depth + 1])

\* The call walked the document in stop or in collect mode
Walked(stop) == vout.called /\ vout.ran /\ vin.stopOnFirstError = stop

\* C1: with stopOnFirstError a document with a failing field makes the call
\* throw a ValidationError that carries the first failure in walk order and
\* nothing else; the checks executed are those of the walk up to that
\* failure, which is the last check executed; and a document without a
\* failing field makes the call return.
C1_StopOnFirstError ==
  Walked(TRUE) =>
    LET collect == documentValidate(vin.doc, vin.fields, vin.prefix, FALSE,
                                    vin.simulation, vin.isServer)
        n == Len(vout.log)
    IN  /\ vout.threw <=> FailingSites # {}
        /\ WalkOrdered(vout.log)
        /\ vout.threw =>
              /\ Failed(vout.log) = {n}
              /\ Len(vout.details) = 1
              /\ vout.details[1].name = vout.log[n].path
              /\ vout.log = SubSeq(collect.log, 1, n)
              /\ \E st \in FailingSites :
                    /\ st.path = vout.log[n].path
                    /\ FirstFailure(st.field, st.value) = vout.details[1].type
        /\ ~vout.threw => (vout.details = << >> /\ Failed(vout.log) = {}
                           /\ vout.log = collect.log)

\* C1 witness: a call in stop mode threw the failure of a field of a nested
\* document, after checks of earlier fields that passed, while a later
\* field of the document fails as well.
C1_Witness ==
  /\ Walked(TRUE) /\ vout.threw
  /\ Len(vout.details[1].name) > Len(vin.prefix) + 1
  /\ Len(vout.log) > 3
  /\ Cardinality(FailingSites) > 2

\* C2: without stopOnFirstError every field to check is checked, whatever
\* failed before; the error thrown carries the failures of all failing
\* fields, of the document and of the documents it holds at every depth, in
\* walk order; the call throws if and only if some field fails.
C2_CollectAll ==
  Walked(FALSE) =>
    /\ {e.path : e \in {vout.log[i] : i \in {j \in 1..Len(vout.log) : vout.log[j].check = "type"}}}
         = {st.path : st \in ExpectedSites}
    /\ WalkOrdered(vout.log)
    /\ DetailPaths(vout.details) = FailurePaths(vout.log)
    /\ {<<d.name, d.type>> : d \in {vout.details[i] : i \in 1..Len(vout.details)}}
         = {<<st.path, FirstFailure(st.field, st.value)>> : st \in FailingSites}
    /\ Len(vout.details) = Cardinality(FailingSites)
    /\ vout.threw <=> vout.details # << >>
    /\ FailingSites = {} => ~vout.threw

\* C2 witness: a call in collect mode threw one error with the failures of
\* a top-level field, of a field of a nested document and of a field of a
\* list element.
C2_Witness ==
  /\ Walked(FALSE) /\ vout.threw
  /\ Len(vout.details) >= 4
  /\ \E i, j, k \in 1..Len(vout.details) :
        /\ vout.details[i].name = <<"title">>
        /\ vout.details[j].name = <<"author", "address", "city">>
        /\ vout.details[k].name = <<"comments", "1", "name">>

\* C3: the path of every error is the prefix of the call followed by the
\* names of the fields, and the indices of the list elements, that lead
\* from the document to the failing field: following the path from the
\* document reaches a field whose value fails the check the error names.
C3_ErrorPath ==
  (vout.called /\ vout.ran) =>
    \A i \in 1..Len(vout.details) :
      LET path == vout.details[i].name
          rel == SubSeq(path, Len(vin.prefix) + 1, Len(path))
          targets == traverse(WalkedDoc, rel)
      IN  /\ IsPrefix(vin.prefix, path)
          /\ Len(rel) >= 1
          /\ Len(targets) = 1
          /\ classHasField(targets[1].doc.class, targets[1].name[1])
          /\ FirstFailure(classGetField(targets[1].doc.class, targets[1].name[1]),
                          targets[1].doc.vals[targets[1].name[1]])
               = vout.details[i].type

\* C3 witness: a call with a prefix reported the missing city of the
\* address of the second element of the list, and the invalid name of the
\* author, each under its full path.
C3_Witness ==
  /\ vout.called /\ vout.ran /\ vin.prefix = <<"root">>
  /\ \E i, j \in 1..Len(vout.details) :
        /\ vout.details[i] = [name |-> <<"root", "author", "name">>, type |-> "minLength"]
        /\ vout.details[j] = [name |-> <<"root", "comments", "1", "address", "city">>,
                               type |-> "required"]

\* The transient fields of the class of the document
TransientNames ==
  {f.name : f \in {g \in {ValidationFields(WalkedDoc.class)[i] :
                              i \in 1..Len(ValidationFields(WalkedDoc.class))} : g.transient}}

\* The check was made on a transient field, or on a document it holds
OnTransient(path) ==
  Len(path) > Len(vin.prefix) /\ path[Len(vin.prefix) + 1] \in TransientNames

\* C10 (as claimed): in no call, in either mode, is a check executed, or an
\* error reported, for a transient field or for a document it holds.
C10_Transient_Claimed ==
  (vout.called /\ vout.ran) =>
    /\ \A i \in 1..Len(vout.log) : ~OnTransient(vout.log[i].path)
    /\ \A i \in 1..Len(vout.details) : ~OnTransient(vout.details[i].name)

\* C10 (amended): a transient field named in the validation set, or reached
\* through the validation order, is skipped: no check is executed and no
\* error reported for it or for a document it holds.  Only a nested-field
\* pattern given in the fields option that leads into the document held by
\* the transient field has the field it addresses there checked.
C10_Transient ==
  (vout.called /\ vout.ran) =>
    /\ \A i \in 1..Len(vout.log) :
          OnTransient(vout.log[i].path) =>
            /\ vin.fields.given
            /\ \E j \in 1..Len(vin.fields.names) :
                  /\ isNestedFieldName(vin.fields.names[j])
                  /\ vout.log[i].path = vin.prefix \o vin.fields.names[j]
    /\ \A i \in 1..Len(vout.details) :
          OnTransient(vout.details[i].name) =>
            \E j \in 1..Len(vout.log) : vout.log[j].path = vout.details[i].name

\* C10 witness: a call in collect mode, with the validation order, walked a
\* document whose transient draft holds a user with an invalid name, and
\* threw the errors of other fields.
C10_Witness ==
  /\ Walked(FALSE) /\ ~vin.fields.given
  /\ vin.doc.vals.draft = BadDraft
  /\ vout.threw /\ Len(vout.details) >= 2
  /\ \A i \in 1..Len(vout.log) : ~OnTransient(vout.log[i].path)

\* The field and the value a path leads to from the document walked, the
\* prefix of the call left out
Reached(path) ==
  LET targets == traverse(WalkedDoc, SubSeq(path, Len(vin.prefix) + 1, Len(path)))
  IN  [field |-> classGetField(targets[1].doc.class, targets[1].name[1]),
       value |-> targets[1].doc.vals[targets[1].name[1]]]

\* C11: no check is executed, and so no error reported, for an optional
\* field whose value is null or undefined, at any depth; an optional field
\* validated with a value that is present and fails a check makes the call
\* throw, and in collect mode the error carries that failure under the path
\* of the field, as for a required field.
C11_Optional ==
  (vout.called /\ vout.ran) =>
    /\ \A i \in 1..Len(vout.log) :
          Reached(vout.log[i].path).field.optional
            => ~isNil(Reached(vout.log[i].path).value)
    /\ \A i \in 1..Len(vout.details) :
          Reached(vout.details[i].name).field.optional
            => ~isNil(Reached(vout.details[i].name).value)
    /\ \A k \in 1..Len(WalkedNames) :
          LET name == WalkedNames[k]
          IN  (Len(name) = 1 /\ classHasField(WalkedDoc.class, name[1])) =>
                LET field == classGetField(WalkedDoc.class, name[1])
                    value == WalkedDoc.vals[name[1]]
                IN  (field.optional /\ ~field.transient /\ ~isNil(value)
                       /\ FirstFailure(field, value) # "none")
                    => /\ vout.threw
                       /\ ~vin.stopOnFirstError =>
                            \E i \in 1..Len(vout.details) :
                              vout.details[i] = [name |-> vin.prefix \o name,
                                                 type |-> FirstFailure(field, value)]

\* C11 witness: a call in collect mode reported the too short note of a
\* document whose author has no address, and nothing for that address.
C11_Witness ==
  /\ Walked(FALSE) /\ ~vin.fields.given
  /\ vin.doc.vals.note = Prim("sa")
  /\ vin.doc.vals.author.k = "doc" /\ isNil(vin.doc.vals.author.vals.address)
  /\ \E i \in 1..Len(vout.details) :
        vout.details[i] = [name |-> vin.prefix \o <<"note">>, type |-> "minLength"]
  /\ \A i \in 1..Len(vout.log) :
        vout.log[i].path # vin.prefix \o <<"author", "address">>

\* The contents of a value, the class an object was cast to left out
RECURSIVE Contents(_)
Contents(value) ==
  IF value.k \in {"doc", "plain"}
    THEN [k |-> "object", vals |-> [n \in DOMAIN value.vals |-> Contents(value.vals[n])]]
  ELSE IF value.k = "list"
    THEN [k |-> "list", elems |-> [i \in 1..Len(value.elems) |-> Contents(value.elems[i])]]
  ELSE value

C15_SimulationGate ==
  vout.called =>
    IF ~vin.simulation /\ ~vin.isServer
      THEN /\ ~vout.ran /\ ~vout.threw
           /\ vout.details = << >> /\ vout.log = << >>
           /\ vout.doc = vin.doc
      ELSE /\ vout.ran
           /\ {vout.log[i].path : i \in 1..Len(vout.log)} \subseteq
                {st.path : st \in ExpectedSites}
           /\ vin.stopOnFirstError =>
                 \A st \in ExpectedSites :
                   (\E i \in 1..Len(vout.log) : vout.log[i].path = st.path) \/ vout.threw
           /\ ~vin.stopOnFirstError =>
                 \A st \in ExpectedSites :
                   \E i \in 1..Len(vout.log) : vout.log[i].path = st.path
           /\ vout.threw <=> FailingSites # {}

\* C15 witness: a call with simulation false, not on the server, returned
\* without a check for a document with a plain author and an invalid title.
C15_Witness ==
  /\ vout.called /\ ~vin.simulation /\ ~vin.isServer
  /\ ~vout.ran /\ ~vout.threw
  /\ vin.doc.vals.author = PlainAuthor /\ vin.doc.vals.title = Prim("null")
  /\ vout.doc.vals.author = PlainAuthor

\* C15 second case: a call with simulation false on the server walked the
\* document and threw.
C15_WitnessServer ==
  /\ vout.called /\ ~vin.simulation /\ vin.isServer /\ vout.ran /\ vout.threw

\* The checks of a field: the type-level one, then the validators bound to
\* the field, in their order
ChecksOf(field) ==
  <<"type">> \o [i \in 1..Len(field.validators) |-> field.validators[i].type]

\* Whether the value fails the k-th check of the field
FailsCheck(field, k, value) ==
  IF k = 1 THEN typeError(field, value) # "none"
  ELSE validatorRejects(field.validators[k - 1], value)

\* The checks the log holds for a path, in the order of the log
RECURSIVE ChecksAt(_, _)
ChecksAt(log, path) ==
  IF log = << >> THEN << >>
  ELSE (IF Head(log).path = path THEN <<Head(log).check>> ELSE << >>)
       \o ChecksAt(Tail(log), path)

\* The number of details an error holds for a path
DetailsAt(details, path) == Cardinality({i \in 1..Len(details) : details[i].name = path})

\* C18 (as claimed): in collect mode the type-level check and every
\* validator of a validated field are executed, and each one the value
\* fails has an entry in the error thrown, whatever failed before it.
C18_EveryValidator_Claimed ==
  Walked(FALSE) =>
    \A st \in ExpectedSites :
      /\ ChecksAt(vout.log, st.path) = ChecksOf(st.field)
      /\ DetailsAt(vout.details, st.path)
           = Cardinality({k \in 1..Len(ChecksOf(st.field)) : FailsCheck(st.field, k, st.value)})

\* C18 (amended): in collect mode the checks of a validated field (the
\* type-level check, then its validators in order) are executed up to the
\* first one the value fails; that failure is the only entry the field has
\* in the error thrown, and the validators after it are not executed.  A
\* field whose value passes every check has all of them executed and no
\* entry.  The walk goes on with the documents the field holds and with the
\* next fields in either case.
C18_EveryValidator ==
  Walked(FALSE) =>
    \A st \in ExpectedSites :
      LET checks == ChecksOf(st.field)
          failing == {k \in 1..Len(checks) : FailsCheck(st.field, k, st.value)}
      IN  IF failing = {}
            THEN /\ ChecksAt(vout.log, st.path) = checks
                 /\ DetailsAt(vout.details, st.path) = 0
            ELSE LET first == CHOOSE k \in failing : \A j \in failing : k <= j
                 IN  /\ ChecksAt(vout.log, st.path) = SubSeq(checks, 1, first)
                     /\ DetailsAt(vout.details, st.path) = 1
                     /\ \E i \in 1..Len(vout.details) :
                           /\ vout.details[i].name = st.path
                           /\ vout.details[i].type = FirstFailure(st.field, st.value)

\* C18 witness: a call in collect mode found a title that is too short and
\* is none of the choices: the error has the minLength failure of the title
\* and the failure of a later field, and the choice validator was not
\* executed.
C18_Witness ==
  /\ Walked(FALSE) /\ ~vin.fields.given
  /\ vin.doc.vals.title = Prim("sa")
  /\ ChecksAt(vout.log, vin.prefix \o <<"title">>) = <<"type", "minLength">>
  /\ DetailsAt(vout.details, vin.prefix \o <<"title">>) = 1
  /\ Len(vout.details) >= 2

\* C13: while the stored _id is falsy (the document was never saved, or
\* was removed), get('_id') is undefined, not null, and get([names]), get()
\* and toJSON() return mappings without the key _id, whatever modified
\* holds.
C13_NoFalseId ==
  ~Truthy(At(values, "_id")) =>
    /\ get(values, modified, cls, "_id") = "undefined"
    /\ "_id" \notin DOMAIN getMany(values, modified, cls, {"_id", "n", "zz"})
    /\ "n" \in DOMAIN getMany(values, modified, cls, {"_id", "n", "zz"})
    /\ "_id" \notin DOMAIN getAll(values, modified, cls)
    /\ "_id" \notin DOMAIN toJSON(values, modified, cls)

\* C13 witness: the document was removed, its stored _id is null, and a
\* truthy _id is pending in modified.
C13_Witness ==
  /\ "_id" \in DOMAIN values /\ values["_id"] = "null"
  /\ "_id" \in DOMAIN modified /\ Truthy(modified["_id"])
  /\ get(values, modified, cls, "_id") = "undefined"
  /\ "_id" \notin DOMAIN toJSON(values, modified, cls)

\* The error each operation throws when the schema has no collection
NoCollectionError(op) ==
  IF op = "save" THEN "There is no collection to save to"
  ELSE IF op = "remove" THEN "There is no collection to remove from"
  ELSE "There is no collection to reload document from"

\* C14: when the schema has no collection, save, remove and reload throw
\* their 'no collection' error: no event handler is triggered, the
\* collection is not called, and values and modified are as they were.
C14_NoCollection ==
  [][(~hasColl /\ last'.op \in {"save", "remove", "reload"}) =>
       /\ last'.threw = NoCollectionError(last'.op)
       /\ last'.log = << >>
       /\ last'.result = "undefined"
       /\ values' = values /\ modified' = modified
       /\ store' = store /\ nextId' = nextId]_vars

\* C14 witness: save has just thrown on a document without collection that
\* has pending modifications, which it still has.
C14_Witness ==
  /\ ~hasColl
  /\ last.op = "save" /\ last.threw = "There is no collection to save to"
  /\ last.log = << >>
  /\ modified # EmptyMap

\* The type of name as declared by the nearest class of the chain of c
NearestType(c, name) ==
  LET i == CHOOSE j \in Declaring(c, name) : \A k \in Declaring(c, name) : j <= k
  IN  SchemaFields(Chain(c)[i])[name].type

\* C16 (as claimed): a set(name, v) that records name in modified records
\* the cast of v to the type declared by the nearest class of the chain that
\* declares name; the type an ancestor declares for the same name is not
\* applied.
C16_ChildCastOnly ==
  [][\A in \in SetInputs :
       (SetStep(in[1], in[2]) /\ Declaring(cls, in[1]) # {}
          /\ in[1] \in DOMAIN modified' /\ modified' # modified)
       => modified'[in[1]] = convertFieldValueByType(in[2], NearestType(cls, in[1]))]_vars

\* The merged schema of a class: the fields of its ancestors, the fields of
\* the class replacing those of the same name
RECURSIVE MergedSchema(_)
MergedSchema(c) ==
  IF getParentClass(c) = "none" THEN SchemaFields(c)
  ELSE Extend(MergedSchema(getParentClass(c)), SchemaFields(c))

\* The mandatory _id field
IdField == [type |-> "String", default |-> "null"]

C19_SaveWithoutChanges ==
  [][(last'.op = "save" /\ hasColl /\ Truthy(At(values, "_id")) /\ modified = EmptyMap) =>
       /\ last'.log = << >>
       /\ last'.result = "false" /\ last'.threw = "none"
       /\ values' = values /\ modified' = modified /\ store' = store]_vars

\* The step is a save() that got past the test of the collection
SaveAttempt == last'.op = "save" /\ hasColl /\ last' # last

\* C20: a save inserts if and only if the stored _id is falsy, and updates
\* the stored document of that _id otherwise.  An insert leaves the id the
\* collection returned as the stored _id, which is truthy, so that the next
\* save updates; an update writes the pending values of the declared fields
\* other than _id, and nothing else.
C20_InsertOrUpdate ==
  [][SaveAttempt =>
       LET stored == At(values, "_id")
       IN  /\ last'.log[2] = (IF Truthy(stored) THEN "beforeUpdate" ELSE "beforeInsert")
           /\ Len(last'.log) >= 3 =>
                 last'.log[3] = (IF Truthy(stored) THEN "update" ELSE "insert")
           /\ (SaveStep /\ ~Truthy(stored)) =>
                 /\ Truthy(values'["_id"]) /\ values'["_id"] = last'.result
                 /\ values'["_id"] \notin DOMAIN store
                 /\ store' = Put(store, values'["_id"], store'[values'["_id"]])
                 /\ store'[values'["_id"]]["_id"] = values'["_id"]
           /\ (SaveStep /\ Truthy(stored)) =>
                 /\ values'["_id"] = stored
                 /\ DOMAIN store' = DOMAIN store
                 /\ \A x \in DOMAIN store :
                      store'[x] = IF x = stored
                                    THEN Extend(store[x],
                                                Pick(modified, getFieldsNames(cls) \ {"_id"}))
                                    ELSE store[x]
                 /\ stored \in DOMAIN store => store'[stored]["_id"] = stored
           /\ ~SaveStep => store' = store]_vars

\* C20 witness: the instance was inserted under the id the collection gave
\* it, and a later save of it has just updated that stored document.
C20_Witness ==
  /\ last.op = "save" /\ last.threw = "none" /\ Len(last.log) = 7
  /\ last.log[3] = "update"
  /\ At(values, "_id") = IdValue(1)
  /\ IdValue(1) \in DOMAIN store
  /\ store[IdValue(1)]["n"] = values["n"]

\* C21: a save that reaches the collection triggers beforeSave, then
\* beforeInsert or beforeUpdate, then calls the collection once; when the
\* call returns it triggers the after event of the same kind, then
\* afterSave, and only then folds the written values into values and clears
\* modified; when the call throws, no after event is triggered, nothing is
\* folded and modified is not cleared.  Insert and update events are never
\* mixed.
C21_SaveOrder ==
  [][(SaveAttempt /\ Len(last'.log) >= 3) =>
       LET kind == IF Truthy(At(values, "_id")) THEN "Update" ELSE "Insert"
           write == IF Truthy(At(values, "_id")) THEN "update" ELSE "insert"
       IN  IF last'.threw = "none"
             THEN /\ last'.log = <<"beforeSave", "before" \o kind, write,
                                   "after" \o kind, "afterSave", "extend", "clear">>
                  /\ modified' = EmptyMap
             ELSE /\ last'.log = <<"beforeSave", "before" \o kind, write>>
                  /\ modified' = modified /\ values' = values /\ store' = store]_vars

\* C21 witness: the write of an update has just thrown; the pending
\* modifications are still there and no after event was triggered.
C21_Witness ==
  /\ last.op = "save" /\ last.threw = "write error"
  /\ last.log = <<"beforeSave", "beforeUpdate", "update">>
  /\ "n" \in DOMAIN modified

\* C21 second case: an insert has just gone through all its steps.
C21_WitnessInsert ==
  /\ last.op = "save" /\ last.threw = "none"
  /\ last.log = <<"beforeSave", "beforeInsert", "insert", "afterInsert", "afterSave",
                  "extend", "clear">>
  /\ modified = EmptyMap

\* The step is a remove() that got past the test of the collection
RemoveAttempt == last'.op = "remove" /\ hasColl /\ last' # last

\* C22: a remove on a document without a stored _id triggers nothing,
\* does not call the collection and changes nothing.  With a stored _id it
\* triggers beforeRemove, removes the document of that _id, triggers
\* afterRemove and then sets the stored _id to null; the other values and
\* modified are as before, and the stored _id being falsy the next save is
\* an insert.
C22_Remove ==
  [][RemoveAttempt =>
       IF ~Truthy(At(values, "_id"))
         THEN /\ last'.log = << >> /\ last'.threw = "none"
              /\ values' = values /\ modified' = modified /\ store' = store
         ELSE last'.threw = "none" =>
                /\ last'.log = <<"beforeRemove", "remove", "afterRemove", "resetId">>
                /\ store' = [x \in (DOMAIN store) \ {values["_id"]} |-> store[x]]
                /\ values' = [values EXCEPT !["_id"] = "null"]
                /\ modified' = modified
                /\ ~saveUpdate(values')]_vars

\* C22 witness: a document with pending modifications was removed, and the
\* save after that has inserted it anew.
C22_Witness ==
  /\ last.op = "save" /\ last.threw = "none"
  /\ Len(last.log) = 7 /\ last.log[3] = "insert"
  /\ "id0" \notin DOMAIN store
  /\ At(values, "_id") = IdValue(1)
  /\ At(values, "p") = "s"

\* The step is a reload() that got past the test of the collection
ReloadAttempt == last'.op = "reload" /\ hasColl /\ last' # last

\* C23: a reload on a document with a stored _id empties modified and makes
\* values the document the collection holds under that _id, or leaves
\* values as they are when the collection holds none; a reload on a
\* document without a stored _id changes neither values nor modified.  The
\* collection is not changed.
C23_Reload ==
  [][ReloadAttempt =>
       /\ store' = store
       /\ IF Truthy(At(values, "_id"))
            THEN /\ modified' = EmptyMap
                 /\ values' = IF values["_id"] \in DOMAIN store
                                 THEN store[values["_id"]] ELSE values
            ELSE values' = values /\ modified' = modified]_vars

\* C23 witness: a reload has just been made on a document whose stored copy
\* another client removed: it still has its values, and nothing pending.
C23_Witness ==
  /\ last.op = "reload" /\ last.threw = "none" /\ last.log = <<"findOne">>
  /\ "_id" \in DOMAIN values /\ values["_id"] \notin DOMAIN store
  /\ Truthy(values["_id"])
  /\ modified = EmptyMap

\* C23 second case: a reload has just replaced values that another client's
\* change had outdated, or that a save had extended.
C23_WitnessReplaced ==
  /\ last.op = "reload" /\ last.threw = "none" /\ last.log = <<"findOne">>
  /\ "_id" \in DOMAIN values /\ values["_id"] \in DOMAIN store
  /\ values = store[values["_id"]]
  /\ modified = EmptyMap

\* C23 third case: a reload on a new document left its pending values.
C23_WitnessNew ==
  /\ last.op = "reload" /\ last.threw = "none" /\ last.log = << >>
  /\ modified # EmptyMap

\* C25: while the stored _id is truthy, a set, of one field or of a
\* mapping, leaves values as they are and modified without the key _id; and
\* whatever the step, the stored _id changes only by a remove, to null, or
\* by the insert of a document whose stored _id was falsy.
C25_StoredIdImmutable ==
  [][/\ (Truthy(At(values, "_id")) /\ last'.op \in {"set", "setMany"})
          => (values' = values /\ "_id" \notin DOMAIN modified')
     /\ (At(values', "_id") # At(values, "_id"))
          => (\/ /\ last'.op = "remove" /\ Truthy(At(values, "_id"))
                 /\ values'["_id"] = "null"
              \/ /\ last'.op = "save" /\ ~Truthy(At(values, "_id"))
                 /\ Len(last'.log) = 7 /\ last'.log[3] = "insert"
                 /\ values'["_id"] = last'.result /\ Truthy(values'["_id"]))]_vars

\* C25 witness: set({_id: 'b', n: 1}) has just returned on a loaded
\* document: n is pending, _id is not, and the stored _id is the loaded one.
C25_Witness ==
  /\ last.op = "setMany" /\ last.threw = "none"
  /\ last.arg = <<<<"_id", "sb">>, <<"n", "n1">>>>
  /\ At(values, "_id") = "id0"
  /\ "n" \in DOMAIN modified /\ "_id" \notin DOMAIN modified


(***************************************************************************)
(* C24                                                                     *)
(***************************************************************************)
\* The operations on the clone and those on the original
CloneOps == {"clone.set", "clone.save", "clone.remove"}

OriginalOps == {"set", "save", "remove"}

\* The documents of the collection other than the one with the given _id
\* are the same after the step
OthersKept(id) ==
  \A x \in DOMAIN store :
    x # id => (x \in DOMAIN store' /\ store'[x] = store[x])

\* C24: clone() returns an instance of the same class whose values and
\* modified are the original's without the key _id; the call leaves the
\* original's values and modified as they were, and so does every later set,
\* save and remove on the clone, which also leave every document but the
\* clone's own as it was; a set, save or remove on the original leaves the
\* clone and the clone's document as they were; a save of the clone that
\* has no stored _id and writes inserts a document under an _id that was
\* not in the collection.
C24_Clone ==
  [][/\ (~clone.made /\ clone'.made)
          => /\ last'.op = "clone"
             /\ clone'.cls = cls
             /\ values' = values
             /\ modified' = modified
             /\ OthersKept("undefined")
             /\ (last'.arg = "nosave" \/ Len(last'.log) < 7)
                  => /\ clone'.values = Omit(values, "_id")
                     /\ clone'.modified = Omit(modified, "_id")
                     /\ store' = store
             /\ (last'.arg = "save" /\ Len(last'.log) = 7)
                  => /\ last'.log[3] = "insert"
                     /\ clone'.values["_id"] \notin DOMAIN store
                     /\ DOMAIN store' = (DOMAIN store) \cup {clone'.values["_id"]}
                     /\ clone'.values["_id"] # At(values, "_id")
                     /\ clone'.modified = EmptyMap
                     /\ \A k \in (DOMAIN values) \ ({"_id"} \cup DOMAIN modified) :
                          k \in DOMAIN clone'.values /\ clone'.values[k] = values[k]
     /\ (last'.op \in CloneOps)
          => /\ clone.made
             /\ cls' = cls
             /\ values' = values
             /\ modified' = modified
             /\ OthersKept(At(clone.values, "_id"))
             /\ (Truthy(At(clone.values, "_id")) /\ Truthy(At(values, "_id")))
                  => clone.values["_id"] # values["_id"]
     /\ (last'.op = "clone.save" /\ ~Truthy(At(clone.values, "_id")) /\ store' # store)
          => /\ last'.log[3] = "insert"
             /\ last'.result \notin DOMAIN store
             /\ DOMAIN store' = (DOMAIN store) \cup {last'.result}
             /\ clone'.values["_id"] = last'.result
     /\ (last'.op \in OriginalOps)
          => /\ clone' = clone
             /\ (clone.made /\ At(clone.values, "_id") \in DOMAIN store)
                  => /\ clone.values["_id"] \in DOMAIN store'
                     /\ store'[clone.values["_id"]] = store[clone.values["_id"]]]_vars

\* C24 witness: the clone of a loaded document with a pending modification
\* has just been saved by an insert under a new _id, while the original
\* still holds its _id, its pending modification and its stored document
C24_Witness ==
  /\ last.op = "clone.save" /\ last.threw = "none"
  /\ Len(last.log) = 7 /\ last.log[3] = "insert"
  /\ clone.made /\ clone.values["_id"] = last.result
  /\ last.result # "id0"
  /\ At(values, "_id") = "id0"
  /\ "n" \in DOMAIN modified
  /\ "id0" \in DOMAIN store /\ store["id0"] = StoredDoc
  /\ last.result \in DOMAIN store

\* C24 witness: the original was saved after the clone; the clone still has
\* the pending modification it copied
C24_WitnessOriginalSaved ==
  /\ last.op = "save" /\ Len(last.log) = 7
  /\ clone.made /\ "n" \in DOMAIN clone.modified
  /\ modified = EmptyMap

\* C24 witness: clone(attrs, true) returned an inserted clone
C24_WitnessCloneSaved ==
  /\ last.op = "clone" /\ last.arg = "save" /\ Len(last.log) = 7
  /\ clone.made /\ Truthy(At(clone.values, "_id"))
  /\ At(values, "_id") = "id0"

====
